---- MODULE Spec2Model ----
(***************************************************************************)
(* Model of the keyword search engine of ai-support-assistant              *)
(* (smart_hybrid_search.py, class SmartHybridSearch).                      *)
(*                                                                         *)
(* Text is a sequence of one-character strings, so that lower(), the       *)
(* \w+ tokenizer, substring tests, str.find and slicing are computed as    *)
(* Python computes them.  Positions are 0-based as in Python.              *)
(*                                                                         *)
(* Scores are exact rationals held as integers in units of 1/ScoreScale:   *)
(* the weights 0.5, 0.3, 0.3, 0.15, 0.1 are 50, 30, 30, 15, 10 hundredths. *)
(* The rounding of IEEE doubles (at most one unit in the last place per    *)
(* addition) is not modelled.                                              *)
(***************************************************************************)
EXTENDS Integers, Sequences, FiniteSets, TLC

(***************************************************************************)
(* Python string primitives                                                *)
(***************************************************************************)
UpperCase == <<"A", "B", "C", "D", "E", "F", "G", "H", "I", "J", "K", "L", "M",
               "N", "O", "P", "Q", "R", "S", "T", "U", "V", "W", "X", "Y", "Z">>
LowerCase == <<"a", "b", "c", "d", "e", "f", "g", "h", "i", "j", "k", "l", "m",
               "n", "o", "p", "q", "r", "s", "t", "u", "v", "w", "x", "y", "z">>
Digits == <<"0", "1", "2", "3", "4", "5", "6", "7", "8", "9">>

Range(f) == {f[i] : i \in DOMAIN f}

\* str.lower() on one character
LowerChar(c) ==
    IF \E i \in DOMAIN UpperCase : UpperCase[i] = c
    THEN LowerCase[CHOOSE i \in DOMAIN UpperCase : UpperCase[i] = c]
    ELSE c

\* str.lower()
Lower(s) == [i \in 1..Len(s) |-> LowerChar(s[i])]

\* the character class \w
IsWordChar(c) ==
    c \in Range(UpperCase) \cup Range(LowerCase) \cup Range(Digits) \cup {"_"}

\* s[a:b] for 0 <= a, 0 <= b (Python clamps both ends to len(s))
Slice(s, a, b) ==
    LET hi == IF b > Len(s) THEN Len(s) ELSE b
    IN  IF a >= hi THEN <<>> ELSE SubSeq(s, a + 1, hi)

\* whether sub occurs in s at 0-based position p
OccursAt(s, sub, p) ==
    /\ p >= 0
    /\ p + Len(sub) <= Len(s)
    /\ \A k \in 1..Len(sub) : s[p + k] = sub[k]

\* s.find(sub, start): the lowest position >= start where sub occurs, else -1
Find(s, sub, start) ==
    LET hits == {p \in start..(Len(s) - Len(sub)) : OccursAt(s, sub, p)}
    IN  IF hits = {} THEN -1
        ELSE CHOOSE p \in hits : \A r \in hits : p <= r

\* sub in s
Contains(s, sub) == Find(s, sub, 0) # -1

\* re.findall(r'\w+', s): the maximal runs of word characters, left to right
RECURSIVE FindAllWords(_, _, _)
FindAllWords(s, i, cur) ==
    IF i > Len(s)
    THEN IF cur = <<>> THEN <<>> ELSE <<cur>>
    ELSE IF IsWordChar(s[i])
         THEN FindAllWords(s, i + 1, Append(cur, s[i]))
         ELSE IF cur = <<>>
              THEN FindAllWords(s, i + 1, <<>>)
              ELSE <<cur>> \o FindAllWords(s, i + 1, <<>>)

\* sum(1 for keyword in keywords if keyword in text)
CountMatches(keywords, text) ==
    Cardinality({i \in DOMAIN keywords : Contains(text, keywords[i])})

Min2(a, b) == IF a <= b THEN a ELSE b
Max2(a, b) == IF a >= b THEN a ELSE b

IsSpace(c) == c \in {" ", "\t", "\n", "\r"}

\* str.strip()
RECURSIVE Strip(_)
Strip(s) ==
    IF s = <<>> THEN <<>>
    ELSE IF IsSpace(Head(s)) THEN Strip(Tail(s))
    ELSE IF IsSpace(s[Len(s)]) THEN Strip(SubSeq(s, 1, Len(s) - 1))
    ELSE s

\* s[:k] for any integer k: a negative k counts from the end
SliceTo(s, k) ==
    IF k >= 0 THEN Slice(s, 0, k) ELSE Slice(s, 0, Max2(Len(s) + k, 0))

\* dict.get(key, default)
Get(d, key, default) == IF key \in DOMAIN d THEN d[key] ELSE default

Ellipsis == <<".", ".", ".">>

\* n filler characters
Pad(n) == [i \in 1..n |-> "x"]

(***************************************************************************)
(* Relevance scorer: SmartHybridSearch.calculate_relevance_score           *)
(***************************************************************************)
\* hundredths of a score point
TitleWeight == 50
ContentWeight == 30
TitlePhraseBonus == 30
ContentPhraseBonus == 15
ProximityBonus == 10
ProximityWindow == 100
MinKeywordLen == 2

\* A score s is held as the integer s * ScoreScale.  matches / len(keywords)
\* is exact for every keyword count that divides ScoreDenominator (1, 2, 3,
\* 4, 6, 12).
ScoreDenominator == 2 * 2 * 3
ScoreScale == 100 * ScoreDenominator
Hundredths(h) == h * ScoreDenominator

stop_words ==
    { <<"h", "o", "w">>, <<"c", "a", "n">>, <<"t", "h", "e">>,
      <<"w", "h", "a", "t">>, <<"w", "h", "e", "n">>,
      <<"w", "h", "e", "r", "e">>, <<"w", "h", "y">>, <<"i", "s">>,
      <<"i", "n">>, <<"t", "o">>, <<"a">>, <<"a", "n">>,
      <<"a", "n", "d">>, <<"o", "r">> }

\* the keyword test of line 48 without the stop-word filter
IsKeywordNoStopWords(w) == Len(w) > MinKeywordLen

IsKeyword(w) == Len(w) > MinKeywordLen /\ w \notin stop_words

\* the keyword list of line 48
query_keywords(query_lower) ==
    SelectSeq(FindAllWords(query_lower, 1, <<>>), IsKeyword)

\* the share of matched keywords taken as a whole number (floor division)
\* before it is weighted
CoverageWholeShare(keywords, text, weight) ==
    (CountMatches(keywords, text) \div Len(keywords)) * Hundredths(weight)

\* line 54 / 58: (matches / len(query_keywords)) * weight
Coverage(keywords, text, weight) ==
    (CountMatches(keywords, text) * Hundredths(weight))
        \div Len(keywords)

\* the exact phrase bonus with the two amounts exchanged
PhraseBonusSwapped(query_lower, title_lower, content_lower) ==
    IF Contains(title_lower, query_lower) THEN Hundredths(ContentPhraseBonus)
    ELSE IF Contains(content_lower, query_lower)
         THEN Hundredths(TitlePhraseBonus)
         ELSE 0

\* the exact phrase bonus with an if in place of the elif of line 64
PhraseBonusBoth(query_lower, title_lower, content_lower) ==
    (IF Contains(title_lower, query_lower)
     THEN Hundredths(TitlePhraseBonus) ELSE 0)
    + (IF Contains(content_lower, query_lower)
       THEN Hundredths(ContentPhraseBonus) ELSE 0)

\* lines 61-65: the exact phrase bonus
PhraseBonus(query_lower, title_lower, content_lower) ==
    IF Contains(title_lower, query_lower) THEN Hundredths(TitlePhraseBonus)
    ELSE IF Contains(content_lower, query_lower)
         THEN Hundredths(ContentPhraseBonus)
         ELSE 0

\* lines 70-79: whether the pair (keywords[i], keywords[i+1]) is close
PairIsClose(keywords, content_lower, i) ==
    LET word1 == keywords[i]
        word2 == keywords[i + 1]
    IN  /\ Contains(content_lower, word1)
        /\ Contains(content_lower, word2)
        /\ LET pos1 == Find(content_lower, word1, 0)
               pos2 == Find(content_lower, word2, pos1)
           IN  0 < pos2 - pos1 /\ pos2 - pos1 < ProximityWindow

\* lines 67-79: added once, at the first close pair
ProximityScore(keywords, content_lower) ==
    IF /\ Len(keywords) >= 2
       /\ \E i \in 1..(Len(keywords) - 1) : PairIsClose(keywords, content_lower, i)
    THEN Hundredths(ProximityBonus)
    ELSE 0

\* The sum of lines 53-79, before the cap of line 81.
RawScore(query_lower, keywords, title_lower, content_lower) ==
    Coverage(keywords, title_lower, TitleWeight)
    + Coverage(keywords, content_lower, ContentWeight)
    + PhraseBonus(query_lower, title_lower, content_lower)
    + ProximityScore(keywords, content_lower)

\* lines 53-79: what each step adds to score; nothing is added when lines
\* 50-51 return first
ScoreTerms(query, article) ==
    LET query_lower == Lower(query)
        title_lower == Lower(article.title)
        content_lower == Lower(article.content)
        keywords == query_keywords(query_lower)
    IN  IF keywords = <<>>
        THEN [title |-> 0, content |-> 0, phrase |-> 0, proximity |-> 0]
        ELSE [title |-> Coverage(keywords, title_lower, TitleWeight),
              content |-> Coverage(keywords, content_lower, ContentWeight),
              phrase |-> PhraseBonus(query_lower, title_lower, content_lower),
              proximity |-> ProximityScore(keywords, content_lower)]

\* calculate_relevance_score with the cap of line 81 left out
ScoreUncapped(query, article) ==
    LET query_lower == Lower(query)
        title_lower == Lower(article.title)
        content_lower == Lower(article.content)
        keywords == query_keywords(query_lower)
    IN  IF keywords = <<>>
        THEN [score |-> 0, exc |-> "none"]
        ELSE [score |-> RawScore(query_lower, keywords, title_lower,
                                 content_lower),
              exc |-> "none"]

\* calculate_relevance_score with the early return of lines 50-51 left out:
\* the division of line 55 then raises for an empty keyword list
ScoreNoEarlyReturn(query, article) ==
    LET query_lower == Lower(query)
        title_lower == Lower(article.title)
        content_lower == Lower(article.content)
        keywords == query_keywords(query_lower)
    IN  IF keywords = <<>>
        THEN [score |-> 0, exc |-> "ZeroDivisionError"]
        ELSE [score |-> Min2(RawScore(query_lower, keywords, title_lower,
                                      content_lower), ScoreScale),
              exc |-> "none"]

\* The value returned (score) or the exception raised (exc) by one call.
calculate_relevance_score(query, article) ==
    LET query_lower == Lower(query)
        title_lower == Lower(article.title)
        content_lower == Lower(article.content)
        keywords == query_keywords(query_lower)
    IN  IF keywords = <<>>
        THEN [score |-> 0, exc |-> "none"]
        ELSE [score |-> Min2(RawScore(query_lower, keywords, title_lower,
                                      content_lower), ScoreScale),
              exc |-> "none"]

(***************************************************************************)
(* Snippet extractor: SmartHybridSearch._extract_relevant_snippet          *)
(***************************************************************************)
SnippetLength == 300
SnippetLead == 100
SnippetMinKeywordLen == 3

IsSnippetKeyword(w) == Len(w) > SnippetMinKeywordLen

\* _extract_relevant_snippet whose window starts at the match itself
SnippetWithoutLead(query, content, snippet_length) ==
    LET keywords == SelectSeq(FindAllWords(Lower(query), 1, <<>>),
                              IsSnippetKeyword)
        content_lower == Lower(content)
        positions == {Find(content_lower, keywords[i], 0) :
                        i \in DOMAIN keywords} \ {-1}
    IN  IF positions = {}
        THEN Slice(content, 0, snippet_length) \o Ellipsis
        ELSE LET first == CHOOSE p \in positions : \A r \in positions : p <= r
                 start_pos == first
                 end_pos == Min2(Len(content), start_pos + snippet_length)
                 body == Slice(content, start_pos, end_pos)
                 lead == IF start_pos > 0 THEN Ellipsis ELSE <<>>
                 trail == IF end_pos < Len(content) THEN Ellipsis ELSE <<>>
             IN  Strip(lead \o body \o trail)

\* _extract_relevant_snippet whose fallback of line 140 marks a cut only
\* where it cuts
SnippetBareWhenShort(query, content, snippet_length) ==
    LET keywords == SelectSeq(FindAllWords(Lower(query), 1, <<>>),
                              IsSnippetKeyword)
        content_lower == Lower(content)
        positions == {Find(content_lower, keywords[i], 0) :
                        i \in DOMAIN keywords} \ {-1}
    IN  IF positions = {}
        THEN IF Len(content) > snippet_length
             THEN Slice(content, 0, snippet_length) \o Ellipsis
             ELSE content
        ELSE LET first == CHOOSE p \in positions : \A r \in positions : p <= r
                 start_pos == Max2(0, first - SnippetLead)
                 end_pos == Min2(Len(content), start_pos + snippet_length)
                 body == Slice(content, start_pos, end_pos)
                 lead == IF start_pos > 0 THEN Ellipsis ELSE <<>>
                 trail == IF end_pos < Len(content) THEN Ellipsis ELSE <<>>
             IN  Strip(lead \o body \o trail)

\* lines 127-153
extract_relevant_snippet(query, content, snippet_length) ==
    LET keywords == SelectSeq(FindAllWords(Lower(query), 1, <<>>),
                              IsSnippetKeyword)
        content_lower == Lower(content)
        positions == {Find(content_lower, keywords[i], 0) :
                        i \in DOMAIN keywords} \ {-1}
    IN  IF positions = {}
        THEN Slice(content, 0, snippet_length) \o Ellipsis
        ELSE LET first == CHOOSE p \in positions : \A r \in positions : p <= r
                 start_pos == Max2(0, first - SnippetLead)
                 end_pos == Min2(Len(content), start_pos + snippet_length)
                 body == Slice(content, start_pos, end_pos)
                 lead == IF start_pos > 0 THEN Ellipsis ELSE <<>>
                 trail == IF end_pos < Len(content) THEN Ellipsis ELSE <<>>
             IN  Strip(lead \o body \o trail)

(***************************************************************************)
(* Article store: SmartHybridSearch.load_articles                          *)
(***************************************************************************)
\* load_articles that lets the failure escape instead of handling it
LoadRaising(current, snapshot) ==
    IF snapshot.kind = "valid"
    THEN [articles |-> snapshot.content, exc |-> "none"]
    ELSE [articles |-> current,
          exc |-> IF snapshot.kind = "missing" THEN "FileNotFoundError"
                  ELSE "JSONDecodeError"]

\* load_articles without the assignments of lines 33 and 36
LoadKeepsStale(current, snapshot) ==
    IF snapshot.kind = "valid"
    THEN [articles |-> snapshot.content, exc |-> "none"]
    ELSE [articles |-> current, exc |-> "none"]

\* The snapshot is what is on disk when load_articles runs: kind "missing"
\* (os.path.exists is false), "malformed" (open or json.load raises) or
\* "valid" (json.load returns the list content).  current is self.articles
\* before the call; the result is self.articles after it and the exception
\* that leaves load_articles.
load_articles(current, snapshot) ==
    IF snapshot.kind # "missing"
    THEN IF snapshot.kind = "valid"
         THEN [articles |-> snapshot.content, exc |-> "none"]
         ELSE [articles |-> <<>>, exc |-> "none"]
    ELSE [articles |-> <<>>, exc |-> "none"]

(***************************************************************************)
(* Inputs: queries and articles                                            *)
(***************************************************************************)
\* the most articles in one snapshot
MaxStore == 2
\* the largest max_results given to search
MaxResults == 2
\* the largest max_articles given to search_and_get_context
MaxContextArticles == 2

DefaultMinScore == 10

QueryEmpty == <<>>
QueryHowTo == <<"h", "o", "w", " ", "t", "o">>
QueryHowCanIReset ==
    <<"h", "o", "w", " ", "c", "a", "n", " ", "I", " ", "r", "e", "s", "e", "t">>
QueryApiKey == <<"a", "p", "i", " ", "k", "e", "y">>

Queries == {QueryEmpty, QueryHowTo, QueryHowCanIReset, QueryApiKey}

\* "Api key" / "use it"
ArticleApiKeyTitle ==
    [title |-> <<"A", "p", "i", " ", "k", "e", "y">>,
     url |-> "u1",
     content |-> <<"u", "s", "e", " ", "i", "t">>,
     scraped_at |-> "2024-01-01"]

\* "key for api" / "the api key"
ArticleApiKeyBody ==
    [title |-> <<"k", "e", "y", " ", "f", "o", "r", " ", "a", "p", "i">>,
     url |-> "u2",
     content |-> <<"t", "h", "e", " ", "a", "p", "i", " ", "k", "e", "y">>,
     scraped_at |-> "2024-01-02"]

\* "How to reset" / "how can i reset it"
ArticleReset ==
    [title |-> <<"H", "o", "w", " ", "t", "o", " ", "r", "e", "s", "e", "t">>,
     url |-> "u3",
     content |-> <<"h", "o", "w", " ", "c", "a", "n", " ", "i", " ", "r", "e",
                   "s", "e", "t", " ", "i", "t">>,
     scraped_at |-> "2024-01-03"]

\* "Notes" / "how to get api key", scraped without a timestamp
ArticleNotes ==
    [title |-> <<"N", "o", "t", "e", "s">>,
     url |-> "u4",
     content |-> <<"h", "o", "w", " ", "t", "o", " ", "g", "e", "t", " ", "a",
                   "p", "i", " ", "k", "e", "y">>]

Pool == {ArticleApiKeyTitle, ArticleApiKeyBody, ArticleReset, ArticleNotes}

\* "Api key guide" / 3495 filler characters and " api key": a body longer
\* than the context window
ArticleApiKeyGuide ==
    [title |-> <<"A", "p", "i", " ", "k", "e", "y", " ", "g", "u", "i", "d", "e">>,
     url |-> "u5",
     content |-> Pad(3495) \o <<" ", "a", "p", "i", " ", "k", "e", "y">>,
     scraped_at |-> "2024-01-05"]

\* every article of the model
Library == Pool \cup {ArticleApiKeyGuide}

\* calculate_relevance_score and _extract_relevant_snippet are pure: their
\* values on the inputs above are computed once and looked up afterwards.
ScoreTable ==
    [q \in Queries |-> [a \in Library |-> calculate_relevance_score(q, a)]]

SnippetTable ==
    [q \in Queries |->
        [a \in Library |->
            extract_relevant_snippet(q, a.content, SnippetLength)]]

ScoreOf(query, article) ==
    IF query \in Queries /\ article \in Library
    THEN ScoreTable[query][article]
    ELSE calculate_relevance_score(query, article)

SnippetOf(query, article) ==
    IF query \in Queries /\ article \in Library
    THEN SnippetTable[query][article]
    ELSE extract_relevant_snippet(query, article.content, SnippetLength)

(***************************************************************************)
(* Ranker: SmartHybridSearch.search                                        *)
(***************************************************************************)
\* an insertion that puts x in front of the elements with x's score
RECURSIVE InsertBeforeTies(_, _)
InsertBeforeTies(sorted, x) ==
    IF sorted = <<>> THEN <<x>>
    ELSE IF Head(sorted).score > x.score
         THEN <<Head(sorted)>> \o InsertBeforeTies(Tail(sorted), x)
         ELSE <<x>> \o sorted

\* list.sort(key=score, reverse=True): stable, descending.  Insert x after
\* every element whose score is >= x's.
RECURSIVE InsertByScore(_, _)
InsertByScore(sorted, x) ==
    IF sorted = <<>> THEN <<x>>
    ELSE IF Head(sorted).score >= x.score
         THEN <<Head(sorted)>> \o InsertByScore(Tail(sorted), x)
         ELSE <<x>> \o sorted

RECURSIVE SortByScoreDesc(_)
SortByScoreDesc(s) ==
    IF s = <<>> THEN <<>>
    ELSE InsertByScore(SortByScoreDesc(SubSeq(s, 1, Len(s) - 1)), s[Len(s)])

\* lines 92-99: the candidates that pass min_score, in store order
ScoredArticles(articles, query, min_score) ==
    LET scored == [i \in DOMAIN articles |->
                     [article |-> articles[i],
                      score |-> ScoreOf(query, articles[i]).score]]
    IN  SelectSeq(scored, LAMBDA c : c.score >= Hundredths(min_score))

\* lines 105-116: one result record per kept candidate
SearchResult(query, item) ==
    [title |-> item.article.title,
     url |-> item.article.url,
     snippet |-> SnippetOf(query, item.article),
     score |-> item.score,
     scraped_at |-> Get(item.article, "scraped_at", "Unknown")]

\* the position of the first article whose scoring raises, 0 if none does
FirstRaising(articles, query) ==
    LET raising == {i \in DOMAIN articles :
                      ScoreOf(query, articles[i]).exc # "none"}
    IN  IF raising = {} THEN 0
        ELSE CHOOSE i \in raising : \A j \in raising : i <= j

\* search with the sort of line 102 left out
SearchNoSort(articles, query, max_results, min_score) ==
    LET top == SliceTo(ScoredArticles(articles, query, min_score), max_results)
    IN  [results |-> [i \in DOMAIN top |-> SearchResult(query, top[i])],
         exc |-> "none", scored |-> Len(articles)]

\* search with the empty-store return of lines 85-87 replaced by an error
SearchEmptyRaises(articles, query, max_results, min_score) ==
    LET top == SliceTo(SortByScoreDesc(ScoredArticles(articles, query, min_score)),
                       max_results)
    IN  IF articles = <<>>
        THEN [results |-> <<>>, exc |-> "ValueError", scored |-> 0]
        ELSE [results |-> [i \in DOMAIN top |-> SearchResult(query, top[i])],
              exc |-> "none", scored |-> Len(articles)]

\* The list returned by search (results), the exception that leaves it (exc)
\* and the number of calculate_relevance_score calls it made (scored).
search(articles, query, max_results, min_score) ==
    IF articles = <<>>
    THEN [results |-> <<>>, exc |-> "none", scored |-> 0]
    ELSE IF FirstRaising(articles, query) # 0
    THEN [results |-> <<>>,
          exc |-> ScoreOf(query, articles[FirstRaising(articles, query)]).exc,
          scored |-> FirstRaising(articles, query)]
    ELSE LET top == SliceTo(SortByScoreDesc(
                                ScoredArticles(articles, query, min_score)),
                            max_results)
         IN  [results |-> [i \in DOMAIN top |-> SearchResult(query, top[i])],
              exc |-> "none", scored |-> Len(articles)]

(***************************************************************************)
(* Fresh fetch: SmartHybridSearch.fetch_fresh_article                      *)
(***************************************************************************)
\* What the network gives for one URL: kind "network_error" (session.get
\* raises), "http_error" (raise_for_status raises), "no_content" (no
\* container element is found) or "ok" (title and cleaned text extracted).
FetchFailureKinds == {"network_error", "http_error", "no_content"}

Now == "now"

\* fetch_fresh_article without the except clause of lines 207-209
FetchPropagating(url, response) ==
    IF response.kind \in {"network_error", "http_error"}
    THEN [value |-> <<>>, exc |-> "RequestException"]
    ELSE IF response.kind = "no_content"
    THEN [value |-> <<>>, exc |-> "none"]
    ELSE [value |-> << [title |-> response.title, url |-> url,
                        content |-> response.content,
                        fetched_at |-> Now, is_fresh |-> TRUE] >>,
          exc |-> "none"]

\* value is <<>> for None and <<article>> for a returned article.
fetch_fresh_article(url, response) ==
    IF response.kind \in {"network_error", "http_error"}
    THEN [value |-> <<>>, exc |-> "none"]
    ELSE IF response.kind = "no_content"
    THEN [value |-> <<>>, exc |-> "none"]
    ELSE [value |-> << [title |-> response.title, url |-> url,
                        content |-> response.content,
                        fetched_at |-> Now, is_fresh |-> TRUE] >>,
          exc |-> "none"]

(***************************************************************************)
(* Context builder: SmartHybridSearch.search_and_get_context               *)
(***************************************************************************)
ContextMinScore == 15
ContextWindow == 3500

\* next((a for a in articles if a['url'] == url), None), as <<>> or <<a>>
Lookup(articles, url) ==
    LET hits == {i \in DOMAIN articles : articles[i].url = url}
    IN  IF hits = {} THEN <<>>
        ELSE <<articles[CHOOSE i \in hits : \A j \in hits : i <= j]>>

\* lines 229-246 for one result: the articles appended (at most one), the
\* exception raised and the URLs fetched
ChooseArticle(articles, result, fetch_fresh, response) ==
    IF ~fetch_fresh
    THEN [chosen |-> Lookup(articles, result.url), exc |-> "none",
          fetched |-> <<>>]
    ELSE LET fresh == fetch_fresh_article(result.url, response)
         IN  IF fresh.exc # "none"
             THEN [chosen |-> <<>>, exc |-> fresh.exc,
                   fetched |-> <<result.url>>]
             ELSE IF fresh.value # <<>>
             THEN [chosen |-> fresh.value, exc |-> "none",
                   fetched |-> <<result.url>>]
             ELSE [chosen |-> Lookup(articles, result.url), exc |-> "none",
                   fetched |-> <<result.url>>]

\* The loop of lines 229-246 over the selected results; responses[i] is
\* what the network gives for the i-th of them.  It stops at an exception.
RECURSIVE CollectArticles(_, _, _, _, _)
CollectArticles(articles, selected, fetch_fresh, responses, i) ==
    IF i > Len(selected)
    THEN [chosen |-> <<>>, exc |-> "none", fetched |-> <<>>]
    ELSE LET one == ChooseArticle(articles, selected[i], fetch_fresh,
                                  responses[i])
         IN  IF one.exc # "none" THEN one
             ELSE LET rest == CollectArticles(articles, selected, fetch_fresh,
                                              responses, i + 1)
                  IN  [chosen |-> one.chosen \o rest.chosen,
                       exc |-> rest.exc,
                       fetched |-> one.fetched \o rest.fetched]

\* the block of the i-th chosen article with the whole body, not the window
\* of line 263
ContextBlockWhole(i, article) ==
    [index |-> i,
     title |-> article.title,
     url |-> article.url,
     fresh |-> Get(article, "is_fresh", FALSE),
     scraped |-> IF Get(article, "is_fresh", FALSE) THEN "n/a"
                 ELSE Get(article, "scraped_at", "Unknown"),
     content |-> article.content]

\* lines 254-264: the block of the i-th chosen article
ContextBlock(i, article) ==
    [index |-> i,
     title |-> article.title,
     url |-> article.url,
     fresh |-> Get(article, "is_fresh", FALSE),
     scraped |-> IF Get(article, "is_fresh", FALSE) THEN "n/a"
                 ELSE Get(article, "scraped_at", "Unknown"),
     content |-> Slice(article.content, 0, ContextWindow)]

\* line 221 with the default minimum of line 83 in place of 0.15
ContextRequestDefaultMin(max_articles) ==
    [max_results |-> max_articles * 2, min_score |-> DefaultMinScore]

\* line 221 with twice as many candidates asked for as articles wanted left
\* out
ContextRequestSingle(max_articles) ==
    [max_results |-> max_articles, min_score |-> ContextMinScore]

\* line 221: the arguments search is called with
ContextRequest(max_articles) ==
    [max_results |-> max_articles * 2, min_score |-> ContextMinScore]

\* lines 221 and 229: the results search_and_get_context works on
ContextSearch(articles, query, max_articles) ==
    search(articles, query, ContextRequest(max_articles).max_results,
           ContextRequest(max_articles).min_score)

ContextSelected(articles, query, max_articles) ==
    SliceTo(ContextSearch(articles, query, max_articles).results, max_articles)

\* a loop that puts each fetched article in the place of the stored one
ContextStoreWithFresh(articles, chosen) ==
    [k \in DOMAIN articles |->
        IF \E c \in DOMAIN chosen :
              /\ chosen[c].url = articles[k].url
              /\ Get(chosen[c], "is_fresh", FALSE)
        THEN chosen[CHOOSE c \in DOMAIN chosen :
                        /\ chosen[c].url = articles[k].url
                        /\ Get(chosen[c], "is_fresh", FALSE)]
        ELSE articles[k]]

\* lines 229-246: self.articles after the loop.  The chosen articles are
\* appended to the local context_articles; self.articles is only read.
ContextStore(articles, chosen) == articles

\* none is TRUE when None is returned; blocks are the article blocks of the
\* returned text, in order; fetched are the URLs given to
\* fetch_fresh_article, in call order; searches are the calls of search;
\* store is self.articles when the call ends.
\* lines 223-266: what the call returns, given the search outcome (found)
\* and the outcome of the loop over the selected results (got)
ContextReturn(articles, found, got, searches) ==
    IF found.exc # "none"
    THEN [none |-> FALSE, blocks |-> <<>>, exc |-> found.exc,
          fetched |-> <<>>, searches |-> searches, store |-> articles]
    ELSE IF found.results = <<>>
    THEN [none |-> TRUE, blocks |-> <<>>, exc |-> "none", fetched |-> <<>>,
          searches |-> searches, store |-> articles]
    ELSE IF got.exc # "none"
    THEN [none |-> FALSE, blocks |-> <<>>, exc |-> got.exc,
          fetched |-> got.fetched, searches |-> searches,
          store |-> ContextStore(articles, got.chosen)]
    ELSE IF got.chosen = <<>>
    THEN [none |-> TRUE, blocks |-> <<>>, exc |-> "none",
          fetched |-> got.fetched, searches |-> searches,
          store |-> ContextStore(articles, got.chosen)]
    ELSE [none |-> FALSE,
          blocks |-> [i \in DOMAIN got.chosen |->
                        ContextBlock(i, got.chosen[i])],
          exc |-> "none", fetched |-> got.fetched, searches |-> searches,
          store |-> ContextStore(articles, got.chosen)]

\* lines 229-246: the loop over results[:max_articles]
ContextCollect(articles, found, max_articles, fetch_fresh, responses, searches) ==
    ContextReturn(articles, found,
                  CollectArticles(articles,
                                  SliceTo(found.results, max_articles),
                                  fetch_fresh, responses, 1),
                  searches)

\* lines 211-266
search_and_get_context(articles, query, max_articles, fetch_fresh, responses) ==
    ContextCollect(articles, ContextSearch(articles, query, max_articles),
                   max_articles, fetch_fresh, responses,
                   <<ContextRequest(max_articles)>>)

(***************************************************************************)
(* Inputs: snapshots, thresholds and network responses                     *)
(***************************************************************************)
\* the article lists a snapshot can hold: URLs are unique within a snapshot
\* four articles that all match "api key", the last with the long body
StoreOfFour ==
    <<ArticleApiKeyTitle, ArticleApiKeyBody, ArticleNotes, ArticleApiKeyGuide>>

Stores ==
    UNION {{s \in [1..n -> Pool] : \A i, j \in 1..n : s[i] = s[j] => i = j} :
             n \in 0..MaxStore}
    \cup {<<ArticleApiKeyGuide>>, StoreOfFour}

Snapshots ==
    {[kind |-> "missing"], [kind |-> "malformed"]}
    \cup {[kind |-> "valid", content |-> c] : c \in Stores}

\* min_score in hundredths: none, the default of line 83, and a strict one
MinScores == {0, DefaultMinScore, 60}

FreshResponse ==
    [kind |-> "ok", title |-> <<"N", "e", "w">>,
     content |-> <<"n", "e", "w", " ", "b", "o", "d", "y">>]

Responses == {[kind |-> k] : k \in FetchFailureKinds} \cup {FreshResponse}

(***************************************************************************)
(* State                                                                   *)
(***************************************************************************)
VARIABLES
    articles,   \* self.articles
    instance,   \* whether SmartHybridSearch(...) returned an object
    loaded,     \* the kind of the snapshot load_articles last read
    lastOp,     \* the call that ran last
    args,       \* its arguments
    result      \* what it returned, and the exception that left it

vars == <<articles, instance, loaded, lastOp, args, result>>

\* __init__: self.articles = [] and then load_articles()
Init ==
    \E snapshot \in Snapshots :
        LET r == load_articles(<<>>, snapshot)
        IN  /\ articles = r.articles
            /\ instance = (r.exc = "none")
            /\ loaded = snapshot.kind
            /\ lastOp = "init"
            /\ args = [snapshot |-> snapshot]
            /\ result = [exc |-> r.exc]

\* load_articles() called again on the instance
Load ==
    /\ instance
    /\ \E snapshot \in Snapshots :
        LET r == load_articles(articles, snapshot)
        IN  /\ articles' = r.articles
            /\ loaded' = snapshot.kind
            /\ lastOp' = "load_articles"
            /\ args' = [snapshot |-> snapshot]
            /\ result' = [exc |-> r.exc]
    /\ UNCHANGED instance

Score ==
    /\ instance
    /\ \E query \in Queries, article \in Pool :
        /\ lastOp' = "calculate_relevance_score"
        /\ args' = [query |-> query, article |-> article]
        /\ result' = ScoreOf(query, article)
    /\ UNCHANGED <<articles, instance, loaded>>

Search ==
    /\ instance
    /\ \E query \in Queries, max_results \in -1..MaxResults,
          min_score \in MinScores :
        /\ lastOp' = "search"
        /\ args' = [query |-> query, max_results |-> max_results,
                    min_score |-> min_score]
        /\ result' = search(articles, query, max_results, min_score)
    /\ UNCHANGED <<articles, instance, loaded>>

\* the state after a call that returned r
ContextCall(query, max_articles, fetch_fresh, responses, r) ==
    /\ lastOp' = "search_and_get_context"
    /\ args' = [query |-> query, max_articles |-> max_articles,
                fetch_fresh |-> fetch_fresh, responses |-> responses]
    /\ result' = [none |-> r.none, blocks |-> r.blocks, exc |-> r.exc,
                  fetched |-> r.fetched, searches |-> r.searches]
    /\ articles' = r.store

\* responses[i] is what the network gives for the URL of the i-th selected
\* result; it is read only when fetch_fresh is set
ContextResponses(selected, fetch_fresh) ==
    IF fetch_fresh THEN [DOMAIN selected -> Responses]
    ELSE {[i \in DOMAIN selected |-> FreshResponse]}

SearchAndGetContext ==
    /\ instance
    /\ \E query \in Queries, max_articles \in -1..MaxContextArticles,
          fetch_fresh \in BOOLEAN :
        \E responses \in ContextResponses(
                ContextSelected(articles, query, max_articles), fetch_fresh) :
            ContextCall(query, max_articles, fetch_fresh, responses,
                        search_and_get_context(articles, query, max_articles,
                                               fetch_fresh, responses))
    /\ UNCHANGED <<instance, loaded>>

\* _extract_relevant_snippet(query, content) as search calls it (line 109)
ExtractSnippet ==
    /\ instance
    /\ \E query \in Queries, article \in Pool :
        /\ lastOp' = "_extract_relevant_snippet"
        /\ args' = [query |-> query, content |-> article.content,
                    snippet_length |-> SnippetLength]
        /\ result' = [snippet |-> SnippetOf(query, article), exc |-> "none"]
    /\ UNCHANGED <<articles, instance, loaded>>

\* fetch_fresh_article(url) for the URL of a known article
FetchFresh ==
    /\ instance
    /\ \E article \in Pool, response \in Responses :
        /\ lastOp' = "fetch_fresh_article"
        /\ args' = [url |-> article.url, response |-> response]
        /\ result' = fetch_fresh_article(article.url, response)
    /\ UNCHANGED <<articles, instance, loaded>>

Next ==
    Load \/ Score \/ Search \/ SearchAndGetContext \/ ExtractSnippet
        \/ FetchFresh

Spec == Init /\ [][Next]_vars

(***************************************************************************)
(* The snippet extractor on long contents                                  *)
(***************************************************************************)
WordGateway == <<"G", "a", "t", "e", "w", "a", "y">>
WordInstallation == <<"I", "n", "s", "t", "a", "l", "l", "a", "t", "i", "o", "n">>

\* "gateway installation", "Install Gateway", "key gateway", "how to", ""
SnippetQueries ==
    { <<"g", "a", "t", "e", "w", "a", "y", " ", "i", "n", "s", "t", "a", "l", "l", "a", "t", "i", "o", "n">>,
      <<"I", "n", "s", "t", "a", "l", "l", " ", "G", "a", "t", "e", "w", "a", "y">>,
      <<"k", "e", "y", " ", "g", "a", "t", "e", "w", "a", "y">>,
      QueryHowTo, QueryEmpty }

\* where the word starts in the content, and how much follows it
SnippetOffsets == {0, 100, 101, 450}
SnippetTails == {0, 300}
SnippetEdges == {<<>>, <<" ">>}

\* contents with the word Gateway, with both words, and with neither
SnippetContents ==
    {lead \o Pad(a) \o WordGateway \o Pad(b) \o trail :
        lead \in SnippetEdges, a \in SnippetOffsets, b \in SnippetTails,
        trail \in SnippetEdges}
    \cup {Pad(130) \o WordInstallation \o Pad(200) \o WordGateway \o Pad(100)}
    \cup {lead \o Pad(n) \o trail :
            lead \in SnippetEdges, n \in {0, 20, 300, 400},
            trail \in SnippetEdges}

SnippetLengths == {SnippetLength, 50}

\* a snippet request on an instance built without a snapshot
InitSnippet ==
    \E query \in SnippetQueries, content \in SnippetContents,
       snippet_length \in SnippetLengths :
        /\ articles = <<>>
        /\ instance = TRUE
        /\ loaded = "missing"
        /\ lastOp = "call _extract_relevant_snippet"
        /\ args = [query |-> query, content |-> content,
                   snippet_length |-> snippet_length]
        /\ result = [exc |-> "none"]

ApplySnippet ==
    /\ lastOp = "call _extract_relevant_snippet"
    /\ lastOp' = "_extract_relevant_snippet"
    /\ result' = [snippet |-> extract_relevant_snippet(args.query,
                                  args.content, args.snippet_length),
                  exc |-> "none"]
    /\ UNCHANGED <<articles, instance, loaded, args>>

SpecSnippet == InitSnippet /\ [][ApplySnippet]_vars

(***************************************************************************)
(* The scorer on bodies with near and far keywords                         *)
(***************************************************************************)
WordReset == <<"r", "e", "s", "e", "t">>
WordPassword == <<"p", "a", "s", "s", "w", "o", "r", "d">>
WordError == <<"e", "r", "r", "o", "r">>

\* "reset password", "key keyboard", "keyboard key",
\* "gateway install error", "api key", "how to"
ScoreQueries ==
    { WordReset \o <<" ">> \o WordPassword,
      <<"k", "e", "y", " ", "k", "e", "y", "b", "o", "a", "r", "d">>,
      <<"k", "e", "y", "b", "o", "a", "r", "d", " ", "k", "e", "y">>,
      <<"g", "a", "t", "e", "w", "a", "y", " ", "i", "n", "s", "t", "a", "l", "l", " ", "e", "r", "r", "o", "r">>,
      QueryApiKey, QueryHowTo }

\* how many characters lie between the two words
ScoreGaps == {1, 94, 95, 200}

ScoreBodies ==
    {WordReset \o Pad(g) \o WordPassword : g \in ScoreGaps}
    \cup {WordPassword \o Pad(g) \o WordReset : g \in {1}}
    \cup {WordPassword \o <<" ">> \o WordReset \o Pad(g) \o WordPassword :
            g \in {1, 200}}
    \cup { <<"k", "e", "y", "b", "o", "a", "r", "d", " ", "k", "e", "y", "b", "o", "a", "r", "d">>,
           <<"k", "e", "y", "b", "o", "a", "r", "d", " ", "k", "e", "y">>,
           <<"G", "a", "t", "e", "w", "a", "y", " ", "i", "n", "s", "t", "a", "l", "l", " ", "e", "r", "r", "o", "r">>,
           <<"g", "a", "t", "e", "w", "a", "y">> \o Pad(150) \o <<"i", "n", "s", "t", "a", "l", "l", " ", "e", "r", "r", "o", "r">>,
           <<"i", "n", "s", "t", "a", "l", "l">> \o Pad(150) \o <<"g", "a", "t", "e", "w", "a", "y", " ", "e", "r", "r", "o", "r">>,
           <<"t", "h", "e", " ", "a", "p", "i", " ", "k", "e", "y">>,
           <<"u", "s", "e", " ", "i", "t">> }

ScoreTitles ==
    { <<"A", "p", "i", " ", "k", "e", "y">>,
      <<"R", "e", "s", "e", "t", " ", "p", "a", "s", "s", "w", "o", "r", "d">>,
      <<"N", "o", "t", "e", "s">> }

ScoreArticles ==
    {[title |-> t, url |-> "u", content |-> c] :
        t \in ScoreTitles, c \in ScoreBodies}

\* a scoring request on an instance built without a snapshot
InitScore ==
    \E query \in ScoreQueries, article \in ScoreArticles :
        /\ articles = <<>>
        /\ instance = TRUE
        /\ loaded = "missing"
        /\ lastOp = "call calculate_relevance_score"
        /\ args = [query |-> query, article |-> article]
        /\ result = [exc |-> "none"]

\* the value returned and, with it, what lines 53-79 added
ApplyScore ==
    /\ lastOp = "call calculate_relevance_score"
    /\ lastOp' = "calculate_relevance_score"
    /\ result' = [score |-> calculate_relevance_score(args.query,
                                                      args.article).score,
                  exc |-> calculate_relevance_score(args.query,
                                                    args.article).exc,
                  added |-> ScoreTerms(args.query, args.article)]
    /\ UNCHANGED <<articles, instance, loaded, args>>

SpecScore == InitScore /\ [][ApplyScore]_vars

(***************************************************************************)
(* Ticket endpoint: app.py, check_dvsum_relevance and handle_ticket        *)
(***************************************************************************)
\* the categories in declaration order, each with its keywords
redirect_keywords ==
    << [category |-> "training",
        keywords |->
          << <<"t", "r", "a", "i", "n", "i", "n", "g">>,
             <<"c", "o", "u", "r", "s", "e">>,
             <<"c", "e", "r", "t", "i", "f", "i", "c", "a", "t", "i", "o", "n">>,
             <<"l", "e", "a", "r", "n", "i", "n", "g">>,
             <<"w", "o", "r", "k", "s", "h", "o", "p">> >>],
       [category |-> "it_helpdesk",
        keywords |->
          << <<"l", "a", "p", "t", "o", "p">>,
             <<"h", "a", "r", "d", "w", "a", "r", "e">>,
             <<"v", "p", "n">>,
             <<"n", "e", "t", "w", "o", "r", "k", " ", "a", "c", "c", "e", "s", "s">>,
             <<"w", "i", "f", "i">>,
             <<"p", "a", "s", "s", "w", "o", "r", "d", " ", "r", "e", "s", "e", "t">>,
             <<"a", "c", "c", "o", "u", "n", "t", " ", "c", "r", "e", "a", "t", "i", "o", "n">> >>],
       [category |-> "infosec",
        keywords |->
          << <<"s", "e", "c", "u", "r", "i", "t", "y", " ", "p", "o", "l", "i", "c", "y">>,
             <<"s", "e", "c", "u", "r", "i", "t", "y", " ", "i", "n", "c", "i", "d", "e", "n", "t">>,
             <<"p", "h", "i", "s", "h", "i", "n", "g">>,
             <<"v", "u", "l", "n", "e", "r", "a", "b", "i", "l", "i", "t", "y">>,
             <<"i", "n", "f", "o", "s", "e", "c">> >>],
       [category |-> "hr_us",
        keywords |->
          << <<"b", "e", "n", "e", "f", "i", "t", "s">>,
             <<"p", "t", "o">>,
             <<"v", "a", "c", "a", "t", "i", "o", "n">>,
             <<"l", "e", "a", "v", "e">>,
             <<"o", "n", "b", "o", "a", "r", "d", "i", "n", "g">>,
             <<"o", "f", "f", "b", "o", "a", "r", "d", "i", "n", "g">>,
             <<"4", "0", "1", "k">> >>],
       [category |-> "payroll_us",
        keywords |->
          << <<"p", "a", "y", "c", "h", "e", "c", "k">>,
             <<"s", "a", "l", "a", "r", "y">>,
             <<"t", "a", "x">>,
             <<"w", "2">>,
             <<"p", "a", "y", "m", "e", "n", "t">>,
             <<"p", "a", "y", "r", "o", "l", "l">> >>],
       [category |-> "hr_india",
        keywords |->
          << <<"i", "n", "d", "i", "a", " ", "o", "f", "f", "i", "c", "e">>,
             <<"b", "a", "n", "g", "a", "l", "o", "r", "e", " ", "o", "f", "f", "i", "c", "e">>,
             <<"i", "n", "d", "i", "a", " ", "h", "r">>,
             <<"i", "n", "d", "i", "a", "n", " ", "e", "m", "p", "l", "o", "y", "e", "e">> >>] >>

redirect_emails ==
    [category \in {redirect_keywords[i].category : i \in DOMAIN redirect_keywords} |->
        IF category = "training" THEN "training@dvsum.com"
        ELSE IF category = "it_helpdesk" THEN "helpdesk@dvsum.com"
        ELSE IF category = "infosec" THEN "infosec@dvsum.com"
        ELSE IF category = "hr_us" THEN "hr@dvsum.com"
        ELSE IF category = "payroll_us" THEN "finance@dvsum.com"
        ELSE "hr-india@dvsum.com"]

\* any(keyword in ticket_lower for keyword in keywords)
AnyKeywordIn(keywords, ticket_lower) ==
    \E k \in DOMAIN keywords : Contains(ticket_lower, keywords[k])

\* check_dvsum_relevance that compares the ticket as written, not lowercased
CheckRelevanceAsWritten(ticket_text) ==
    LET hits == {i \in DOMAIN redirect_keywords :
                   AnyKeywordIn(redirect_keywords[i].keywords, ticket_text)}
    IN  IF hits = {}
        THEN [is_dvsum |-> TRUE, category |-> "None", email |-> "None"]
        ELSE LET first == CHOOSE i \in hits : \A j \in hits : i <= j
                 category == redirect_keywords[first].category
             IN  [is_dvsum |-> FALSE, category |-> category,
                  email |-> redirect_emails[category]]

\* lines 158-184: the first category, in declaration order, one of whose
\* keywords occurs in the lowercased ticket
check_dvsum_relevance(ticket_text) ==
    LET ticket_lower == Lower(ticket_text)
        hits == {i \in DOMAIN redirect_keywords :
                   AnyKeywordIn(redirect_keywords[i].keywords, ticket_lower)}
    IN  IF hits = {}
        THEN [is_dvsum |-> TRUE, category |-> "None", email |-> "None"]
        ELSE LET first == CHOOSE i \in hits : \A j \in hits : i <= j
                 category == redirect_keywords[first].category
             IN  [is_dvsum |-> FALSE, category |-> category,
                  email |-> redirect_emails[category]]

\* the keys of SEVERITY_CONFIGS and of TICKET_TYPES
Severities == {"S1", "S2", "S3"}
TicketTypes == {"BUG", "ENHANCEMENT", "QUESTION", "REQUEST"}

\* how the keys are spelled
Spelled ==
    [S1 |-> <<"S", "1">>, S2 |-> <<"S", "2">>, S3 |-> <<"S", "3">>,
     BUG |-> <<"B", "U", "G">>,
     ENHANCEMENT |-> <<"E", "N", "H", "A", "N", "C", "E", "M", "E", "N", "T">>,
     QUESTION |-> <<"Q", "U", "E", "S", "T", "I", "O", "N">>,
     REQUEST |-> <<"R", "E", "Q", "U", "E", "S", "T">>]

\* the key a text spells, "other" for a text that spells none
KeyOf(text) ==
    IF \E k \in DOMAIN Spelled : Spelled[k] = text
    THEN CHOOSE k \in DOMAIN Spelled : Spelled[k] = text
    ELSE "other"

\* Three letters outside ASCII that re.IGNORECASE takes for "s" and "i":
\* U+017F (long s), U+0130 (capital I with dot), U+0131 (dotless i).
\* the letter that re.IGNORECASE compares
FoldChar(c) ==
    IF c = "U+017F" THEN "s"
    ELSE IF c \in {"U+0130", "U+0131"} THEN "i"
    ELSE LowerChar(c)

\* str.upper, one character
UpperChar(c) ==
    IF c = "U+017F" THEN "S"
    ELSE IF c = "U+0131" THEN "I"
    ELSE IF \E i \in DOMAIN LowerCase : LowerCase[i] = c
    THEN UpperCase[CHOOSE i \in DOMAIN LowerCase : LowerCase[i] = c]
    ELSE c

Upper(s) == [i \in 1..Len(s) |-> UpperChar(s[i])]

\* the literal lit matches text at offset p (from 0), letter case ignored
MatchesAt(text, lit, p) ==
    /\ p + Len(lit) <= Len(text)
    /\ \A k \in 1..Len(lit) : FoldChar(text[p + k]) = FoldChar(lit[k])

\* \s*: the offset of the first character at or after p that is no space
RECURSIVE SkipSpaces(_, _)
SkipSpaces(text, p) ==
    IF p < Len(text) /\ IsSpace(text[p + 1]) THEN SkipSpaces(text, p + 1)
    ELSE p

\* re.search(label \s* (alt1|alt2|...), text, re.IGNORECASE): group 1 of the
\* leftmost match, with the first alternative that fits; <<>> for no match
RegexGroup(text, label, alternatives) ==
    LET fits(p) == {a \in DOMAIN alternatives :
                      /\ MatchesAt(text, label, p)
                      /\ MatchesAt(text, alternatives[a],
                                   SkipSpaces(text, p + Len(label)))}
        starts == {p \in 0..Len(text) : fits(p) # {}}
    IN  IF starts = {} THEN <<>>
        ELSE LET p == CHOOSE q \in starts : \A r \in starts : q <= r
                 a == CHOOSE x \in fits(p) : \A y \in fits(p) : x <= y
                 from == SkipSpaces(text, p + Len(label))
             IN  Slice(text, from, from + Len(alternatives[a]))

\* line 233: SEVERITY:\s*(S[123])
SeverityLabel == <<"S", "E", "V", "E", "R", "I", "T", "Y", ":">>
SeverityAlternatives == <<Spelled.S1, Spelled.S2, Spelled.S3>>

\* line 234: TYPE:\s*(BUG|ENHANCEMENT|QUESTION|REQUEST)
TypeLabel == <<"T", "Y", "P", "E", ":">>
TypeAlternatives ==
    <<Spelled.BUG, Spelled.ENHANCEMENT, Spelled.QUESTION, Spelled.REQUEST>>

\* lines 233-239: the values read from the reply, before the validation
ParsedSeverity(analysis) ==
    IF RegexGroup(analysis, SeverityLabel, SeverityAlternatives) = <<>>
    THEN "S3"
    ELSE KeyOf(Upper(RegexGroup(analysis, SeverityLabel,
                                SeverityAlternatives)))

ParsedType(analysis) ==
    IF RegexGroup(analysis, TypeLabel, TypeAlternatives) = <<>>
    THEN "QUESTION"
    ELSE KeyOf(Upper(RegexGroup(analysis, TypeLabel, TypeAlternatives)))

\* analyze_severity_and_type without the validation of lines 243-246
AnalyzeUnvalidated(llm, reply) ==
    IF ~llm
    THEN [severity |-> "S3", ticket_type |-> "QUESTION",
          calls |-> <<"analyze_severity_and_type">>]
    ELSE IF reply.raises
    THEN [severity |-> "S3", ticket_type |-> "QUESTION",
          calls |-> <<"analyze_severity_and_type", "llm.invoke">>]
    ELSE [severity |-> ParsedSeverity(Strip(reply.content)),
          ticket_type |-> ParsedType(Strip(reply.content)),
          calls |-> <<"analyze_severity_and_type", "llm.invoke">>]

\* lines 186-255.  llm is whether standalone_llm is set; reply is what
\* standalone_llm.invoke gives: it raises, or it returns the text content.
analyze_severity_and_type(llm, reply) ==
    IF ~llm
    THEN [severity |-> "S3", ticket_type |-> "QUESTION",
          calls |-> <<"analyze_severity_and_type">>]
    ELSE IF reply.raises
    THEN [severity |-> "S3", ticket_type |-> "QUESTION",
          calls |-> <<"analyze_severity_and_type", "llm.invoke">>]
    ELSE [severity |->
              IF ParsedSeverity(Strip(reply.content)) \notin {"S1", "S2", "S3"}
              THEN "S3" ELSE ParsedSeverity(Strip(reply.content)),
          ticket_type |->
              IF ParsedType(Strip(reply.content))
                     \notin {"BUG", "ENHANCEMENT", "QUESTION", "REQUEST"}
              THEN "QUESTION" ELSE ParsedType(Strip(reply.content)),
          calls |-> <<"analyze_severity_and_type", "llm.invoke">>]

\* lines 315-331 and 594-603: the lookups SEVERITY_CONFIGS[severity] and
\* TICKET_TYPES[ticket_type]
ClassificationLookups(severity, ticket_type) ==
    IF severity \in Severities /\ ticket_type \in TicketTypes
    THEN "none" ELSE "KeyError"

\* steps 4 and 5 with step 5 taken for every ticket type
SolutionStepsAlwaysSummary(ticket_type, world) ==
    LET four == IF ticket_type \in {"BUG", "QUESTION", "REQUEST"}
                THEN IF world.kb = "none"
                     THEN [immediate_solution |-> FALSE,
                           calls |-> <<"search_knowledge_base">>]
                     ELSE [immediate_solution |-> world.solution = "text",
                           calls |-> <<"search_knowledge_base",
                                       "generate_solution", "llm.invoke">>]
                ELSE [immediate_solution |-> FALSE, calls |-> <<>>]
    IN  [immediate_solution |-> four.immediate_solution,
         fr_summary |-> world.fr = "text",
         calls |-> four.calls \o <<"generate_fr_summary", "llm.invoke">>]

\* lines 609-628: steps 4 and 5.  world.kb is what search_knowledge_base
\* returns ("none": no context part), world.solution and world.fr what the
\* LLM gives for the solution and for the FR summary.
SolutionSteps(ticket_type, world) ==
    IF ticket_type \in {"BUG", "QUESTION", "REQUEST"}
    THEN IF world.kb = "none"
         THEN [immediate_solution |-> FALSE, fr_summary |-> FALSE,
               calls |-> <<"search_knowledge_base">>]
         ELSE [immediate_solution |-> world.solution = "text",
               fr_summary |-> FALSE,
               calls |-> <<"search_knowledge_base", "generate_solution",
                           "llm.invoke">>]
    ELSE [immediate_solution |-> FALSE, fr_summary |-> world.fr = "text",
          calls |-> <<"generate_fr_summary", "llm.invoke">>]

\* lines 531-642.  calls are the steps taken, in order.
handle_ticket(llm, ticket_raw, world) ==
    LET ticket_text == Strip(ticket_raw)
        relevance == check_dvsum_relevance(ticket_text)
        class == analyze_severity_and_type(llm, world.classify)
        steps == SolutionSteps(class.ticket_type, world)
    IN  IF ~llm
        THEN [status |-> 400, error |-> "AI agent not initialized",
              calls |-> <<>>]
        ELSE IF ticket_text = <<>>
        THEN [status |-> 400, error |-> "No ticket text provided",
              calls |-> <<>>]
        ELSE IF ~relevance.is_dvsum
        THEN [status |-> 200, success |-> TRUE, redirected |-> TRUE,
              redirect_category |-> relevance.category,
              redirect_email |-> relevance.email,
              calls |-> <<"check_dvsum_relevance">>]
        ELSE IF ClassificationLookups(class.severity, class.ticket_type)
                    # "none"
        THEN [status |-> 500, error |-> "KeyError",
              calls |-> <<"check_dvsum_relevance">> \o class.calls
                        \o <<"explain_in_simple_english", "llm.invoke",
                             "generate_acknowledgment">>]
        ELSE [status |-> 200, success |-> TRUE, redirected |-> FALSE,
              severity |-> class.severity,
              ticket_type |-> class.ticket_type,
              immediate_solution |-> steps.immediate_solution,
              fr_summary |-> steps.fr_summary,
              calls |-> <<"check_dvsum_relevance">> \o class.calls
                        \o <<"explain_in_simple_english", "llm.invoke",
                             "generate_acknowledgment">>
                        \o steps.calls]

\* "Enroll me in the DVSum Certification course"
TicketCertification ==
    <<"E", "n", "r", "o", "l", "l", " ", "m", "e", " ", "i", "n", " ", "t", "h", "e", " ", "D", "V", "S", "u", "m", " ", "C", "e", "r", "t", "i", "f", "i", "c", "a", "t", "i", "o", "n", " ", "c", "o", "u", "r", "s", "e">>

\* "VPN course"
TicketVpnCourse ==
    <<"V", "P", "N", " ", "c", "o", "u", "r", "s", "e">>

\* "Laptop broke the security policy"
TicketLaptopPolicy ==
    <<"L", "a", "p", "t", "o", "p", " ", "b", "r", "o", "k", "e", " ", "t", "h", "e", " ", "s", "e", "c", "u", "r", "i", "t", "y", " ", "p", "o", "l", "i", "c", "y">>

\* "Syntax error in rule"
TicketSyntax ==
    <<"S", "y", "n", "t", "a", "x", " ", "e", "r", "r", "o", "r", " ", "i", "n", " ", "r", "u", "l", "e">>

\* "Job failed in CADDI"
TicketJobFailed ==
    <<"J", "o", "b", " ", "f", "a", "i", "l", "e", "d", " ", "i", "n", " ", "C", "A", "D", "D", "I">>

\* "  "
TicketBlank ==
    <<" ", " ">>

\* " payroll "
TicketPayroll ==
    <<" ", "p", "a", "y", "r", "o", "l", "l", " ">>

TicketTexts ==
    {TicketCertification, TicketVpnCourse, TicketLaptopPolicy, TicketSyntax,
     TicketJobFailed, TicketBlank, TicketPayroll, <<>>}

\* the SEVERITY part of a reply:
\*   "SEVERITY: S1"
\*   "severity: s2"
\*   "Severity:S4"
\*   ""
\*   "SEVERITY: U+017F3"
\*   "SEVERITY: high\nSEVERITY:\n S2"
\*   "The SEVERITY: S3."
SeverityLines ==
    { <<"S", "E", "V", "E", "R", "I", "T", "Y", ":", " ", "S", "1">>,
      <<"s", "e", "v", "e", "r", "i", "t", "y", ":", " ", "s", "2">>,
      <<"S", "e", "v", "e", "r", "i", "t", "y", ":", "S", "4">>,
      <<>>,
      <<"S", "E", "V", "E", "R", "I", "T", "Y", ":", " ", "U+017F", "3">>,
      <<"S", "E", "V", "E", "R", "I", "T", "Y", ":", " ", "h", "i", "g", "h", "\n", "S", "E", "V", "E", "R", "I", "T", "Y", ":", "\n", " ", "S", "2">>,
      <<"T", "h", "e", " ", "S", "E", "V", "E", "R", "I", "T", "Y", ":", " ", "S", "3", ".">> }

\* the TYPE part of a reply:
\*   "TYPE: BUG"
\*   "type: enhancement"
\*   "TYPE: REQUEST"
\*   "Type: queU+017Ftion"
\*   "TYPE: QUESTU+0130ON"
\*   "TYPE: Incident"
\*   ""
\*   "TYPE: bugs"
TypeLines ==
    { <<"T", "Y", "P", "E", ":", " ", "B", "U", "G">>,
      <<"t", "y", "p", "e", ":", " ", "e", "n", "h", "a", "n", "c", "e", "m", "e", "n", "t">>,
      <<"T", "Y", "P", "E", ":", " ", "R", "E", "Q", "U", "E", "S", "T">>,
      <<"T", "y", "p", "e", ":", " ", "q", "u", "e", "U+017F", "t", "i", "o", "n">>,
      <<"T", "Y", "P", "E", ":", " ", "Q", "U", "E", "S", "T", "U+0130", "O", "N">>,
      <<"T", "Y", "P", "E", ":", " ", "I", "n", "c", "i", "d", "e", "n", "t">>,
      <<>>,
      <<"T", "Y", "P", "E", ":", " ", "b", "u", "g", "s">> }

\* the texts the LLM replies with: the two parts on two lines
ReplyTexts == {s \o <<"\n">> \o t : s \in SeverityLines, t \in TypeLines}

ClassifyReplies ==
    {[raises |-> TRUE, content |-> <<>>]}
    \cup {[raises |-> FALSE, content |-> c] : c \in ReplyTexts}

Worlds ==
    [classify : ClassifyReplies, kb : {"none", "context"},
     solution : {"raises", "empty", "text"}, fr : {"raises", "text"}]

\* a request to /handle-ticket
InitTicket ==
    \E llm \in BOOLEAN, ticket_text \in TicketTexts, world \in Worlds :
        /\ articles = <<>>
        /\ instance = TRUE
        /\ loaded = "missing"
        /\ lastOp = "call handle_ticket"
        /\ args = [llm |-> llm, ticket_text |-> ticket_text, world |-> world]
        /\ result = [exc |-> "none"]

HandleTicket ==
    /\ lastOp = "call handle_ticket"
    /\ lastOp' = "handle_ticket"
    /\ result' = handle_ticket(args.llm, args.ticket_text, args.world)
    /\ UNCHANGED <<articles, instance, loaded, args>>

SpecTicket == InitTicket /\ [][HandleTicket]_vars

(***************************************************************************)
(* A reader running while load_articles reloads the store                  *)
(***************************************************************************)
\* One search or search_and_get_context call (fetch_fresh=False) taken one
\* read of self.articles at a time; lastOp is the line the call stands at.
\* load_articles rebinds self.articles in one assignment (line 29, or line
\* 33 or 36 on failure), so each read sees one whole list.

\* the most reloads during one call
MaxReloads == 2

\* "Api key" / "rotate the api key": the article of u1 as scraped again later
ArticleApiKeyTitleRevised ==
    [title |-> <<"A", "p", "i", " ", "k", "e", "y">>,
     url |-> "u1",
     content |-> <<"r", "o", "t", "a", "t", "e", " ", "t", "h", "e", " ", "a", "p", "i", " ", "k", "e", "y">>,
     scraped_at |-> "2024-02-01"]

ReloadStores ==
    { <<ArticleApiKeyTitle, ArticleApiKeyBody>>,
      <<ArticleApiKeyTitleRevised, ArticleApiKeyBody>>,
      <<ArticleApiKeyBody>>,
      <<ArticleNotes>> }

ReloadSnapshots ==
    {[kind |-> "missing"]} \cup {[kind |-> "valid", content |-> c] :
                                   c \in ReloadStores}

ReaderLines == {"line 85", "line 93", "line 223", "line 229", "line 248"}

InitReader ==
    \E snapshot \in ReloadSnapshots :
        /\ articles = load_articles(<<>>, snapshot).articles
        /\ instance = TRUE
        /\ loaded = snapshot.kind
        /\ lastOp = "init"
        /\ args = [snapshot |-> snapshot]
        /\ result = [exc |-> "none"]

\* the locals of a call that has just begun; snapshots are the lists
\* self.articles was bound to since then
ReaderLocals ==
    [snapshots |-> {articles}, reloads |-> 0, exc |-> "none",
     results |-> <<>>, selected |-> <<>>, i |-> 1, chosen |-> <<>>,
     lost |-> 0, none |-> FALSE, blocks |-> <<>>]

StartSearch ==
    /\ lastOp = "init"
    /\ \E max_results \in 1..MaxResults, min_score \in {0, DefaultMinScore} :
          args' = [op |-> "search", query |-> QueryApiKey,
                   max_results |-> max_results, min_score |-> min_score]
    /\ lastOp' = "line 85"
    /\ result' = ReaderLocals
    /\ UNCHANGED <<articles, instance, loaded>>

StartContext ==
    /\ lastOp = "init"
    /\ \E max_articles \in 1..MaxContextArticles :
          args' = [op |-> "search_and_get_context", query |-> QueryApiKey,
                   max_articles |-> max_articles,
                   max_results |-> ContextRequest(max_articles).max_results,
                   min_score |-> ContextRequest(max_articles).min_score]
    /\ lastOp' = "line 85"
    /\ result' = ReaderLocals
    /\ UNCHANGED <<articles, instance, loaded>>

\* line 85: if not self.articles: return []
CheckStore ==
    /\ lastOp = "line 85"
    /\ lastOp' = IF articles # <<>> THEN "line 93"
                 ELSE IF args.op = "search" THEN "returned" ELSE "line 223"
    /\ UNCHANGED <<articles, instance, loaded, args, result>>

\* lines 93-116: the loop over the list self.articles is bound to now, the
\* sort and the result records
RankStore ==
    /\ lastOp = "line 93"
    /\ result' = [result EXCEPT !.results =
                      search(articles, args.query, args.max_results,
                             args.min_score).results]
    /\ lastOp' = IF args.op = "search" THEN "returned" ELSE "line 223"
    /\ UNCHANGED <<articles, instance, loaded, args>>

\* lines 223-229: return None without results, else loop over the first
\* max_articles of them
CheckResults ==
    /\ lastOp = "line 223"
    /\ IF result.results = <<>>
       THEN /\ result' = [result EXCEPT !.none = TRUE]
            /\ lastOp' = "returned"
       ELSE /\ result' = [result EXCEPT !.selected =
                              SliceTo(result.results, args.max_articles)]
            /\ lastOp' = "line 229"
    /\ UNCHANGED <<articles, instance, loaded, args>>

\* lines 229-246 for one result: the lookup in the list self.articles is
\* bound to now
LookupNext ==
    /\ lastOp = "line 229"
    /\ IF result.i > Len(result.selected)
       THEN /\ lastOp' = "line 248"
            /\ UNCHANGED result
       ELSE LET found == Lookup(articles, result.selected[result.i].url)
            IN  /\ result' = [result EXCEPT
                                !.chosen = @ \o found,
                                !.lost = @ + (IF found = <<>> THEN 1 ELSE 0),
                                !.i = @ + 1]
                /\ UNCHANGED lastOp
    /\ UNCHANGED <<articles, instance, loaded, args>>

\* lines 248-264
FinishContext ==
    /\ lastOp = "line 248"
    /\ result' = IF result.chosen = <<>>
                 THEN [result EXCEPT !.none = TRUE]
                 ELSE [result EXCEPT !.blocks =
                          [k \in DOMAIN result.chosen |->
                              ContextBlock(k, result.chosen[k])]]
    /\ lastOp' = "returned"
    /\ UNCHANGED <<articles, instance, loaded, args>>

\* load_articles in another thread while the call runs
Reload ==
    /\ lastOp \in ReaderLines
    /\ result.reloads < MaxReloads
    /\ \E snapshot \in ReloadSnapshots :
        LET r == load_articles(articles, snapshot)
        IN  /\ articles' = r.articles
            /\ loaded' = snapshot.kind
            /\ result' = [result EXCEPT !.snapshots = @ \cup {r.articles},
                                        !.reloads = @ + 1]
    /\ UNCHANGED <<instance, lastOp, args>>

NextReader ==
    StartSearch \/ StartContext \/ CheckStore \/ RankStore \/ CheckResults
        \/ LookupNext \/ FinishContext \/ Reload

SpecReader == InitReader /\ [][NextReader]_vars

(***************************************************************************)
(* The module-level searcher: get_smart_searcher called from threads       *)
(***************************************************************************)
SearcherThreads == {"t1", "t2", "t3"}

\* the most calls of get_smart_searcher one thread makes
MaxCalls == 2

\* the value None of _smart_searcher; instances are numbered from 1
NoSearcher == 0

\* module import: _smart_searcher = None (line 286), no call has begun.
\* result.made is the instance a thread constructed and has not stored yet,
\* result.returned the instances each thread's calls returned.
InitSearcher ==
    /\ articles = <<>>
    /\ instance = FALSE
    /\ loaded = "never"
    /\ lastOp = "import"
    /\ args = [threads |-> SearcherThreads]
    /\ result = [smart_searcher |-> NoSearcher,
                 constructed |-> 0,
                 pc |-> [t \in SearcherThreads |-> "idle"],
                 calls |-> [t \in SearcherThreads |-> 0],
                 made |-> [t \in SearcherThreads |-> NoSearcher],
                 returned |-> [t \in SearcherThreads |-> <<>>]]

\* a thread enters get_smart_searcher
CallGetSearcher ==
    \E t \in SearcherThreads :
        /\ result.pc[t] = "idle"
        /\ result.calls[t] < MaxCalls
        /\ result' = [result EXCEPT !.pc[t] = "line 291", !.calls[t] = @ + 1]
        /\ lastOp' = "get_smart_searcher"
        /\ UNCHANGED <<articles, instance, loaded, args>>

\* line 291: if _smart_searcher is None
TestSearcher ==
    \E t \in SearcherThreads :
        /\ result.pc[t] = "line 291"
        /\ result' = [result EXCEPT !.pc[t] =
                          IF result.smart_searcher = NoSearcher
                          THEN "line 292" ELSE "line 293"]
        /\ lastOp' = "line 291"
        /\ UNCHANGED <<articles, instance, loaded, args>>

\* line 292, right-hand side: SmartHybridSearch() runs __init__, which reads
\* the snapshot with load_articles
ConstructSearcher ==
    \E t \in SearcherThreads, snapshot \in ReloadSnapshots :
        /\ result.pc[t] = "line 292"
        /\ result' = [result EXCEPT !.pc[t] = "line 292 store",
                                    !.constructed = @ + 1,
                                    !.made[t] = result.constructed + 1]
        /\ articles' = load_articles(<<>>, snapshot).articles
        /\ instance' = TRUE
        /\ loaded' = snapshot.kind
        /\ lastOp' = "line 292"
        /\ UNCHANGED args

\* line 292, assignment: _smart_searcher = the new instance
StoreSearcher ==
    \E t \in SearcherThreads :
        /\ result.pc[t] = "line 292 store"
        /\ result' = [result EXCEPT !.pc[t] = "line 293",
                                    !.smart_searcher = result.made[t],
                                    !.made[t] = NoSearcher]
        /\ lastOp' = "line 292 store"
        /\ UNCHANGED <<articles, instance, loaded, args>>

\* line 293: return _smart_searcher
ReturnSearcher ==
    \E t \in SearcherThreads :
        /\ result.pc[t] = "line 293"
        /\ result' = [result EXCEPT !.pc[t] = "idle",
                                    !.returned[t] =
                                        Append(@, result.smart_searcher)]
        /\ lastOp' = "line 293"
        /\ UNCHANGED <<articles, instance, loaded, args>>

NextSearcher ==
    CallGetSearcher \/ TestSearcher \/ ConstructSearcher \/ StoreSearcher
        \/ ReturnSearcher

SpecSearcher == InitSearcher /\ [][NextSearcher]_vars

(***************************************************************************)
(* The classifier on LLM replies: analyze_severity_and_type                *)
(***************************************************************************)
\* a call of analyze_severity_and_type: standalone_llm is set or not, and
\* the reply it would give
InitClassify ==
    \E llm \in BOOLEAN, reply \in ClassifyReplies :
        /\ articles = <<>>
        /\ instance = TRUE
        /\ loaded = "missing"
        /\ lastOp = "call analyze_severity_and_type"
        /\ args = [llm |-> llm, reply |-> reply]
        /\ result = [exc |-> "none"]

\* the call, followed by the lookups generate_acknowledgment and
\* handle_ticket make with what it returned
ApplyClassify ==
    /\ lastOp = "call analyze_severity_and_type"
    /\ lastOp' = "analyze_severity_and_type"
    /\ result' =
          [severity |-> analyze_severity_and_type(args.llm, args.reply).severity,
           ticket_type |->
               analyze_severity_and_type(args.llm, args.reply).ticket_type,
           exc |-> "none",
           lookups |-> ClassificationLookups(
               analyze_severity_and_type(args.llm, args.reply).severity,
               analyze_severity_and_type(args.llm, args.reply).ticket_type)]
    /\ UNCHANGED <<articles, instance, loaded, args>>

SpecClassify == InitClassify /\ [][ApplyClassify]_vars

(***************************************************************************)
(* Knowledge base search: app.py search_knowledge_base                     *)
(***************************************************************************)
KeywordLabel == "Knowledge Base Articles"
VectorLabel == "Documentation Database"

UrlMarker == <<"U", "R", "L", ":", " ">>
HttpScheme == <<"h", "t", "t", "p">>
SchemeTail == <<":", "/", "/">>

\* [^\s]+ : the offset after the characters from p that are no spaces
RECURSIVE SkipNonSpaces(_, _)
SkipNonSpaces(text, p) ==
    IF p < Len(text) /\ ~IsSpace(text[p + 1]) THEN SkipNonSpaces(text, p + 1)
    ELSE p

\* the offset after "URL: http", an optional "s" and "://" when the pattern
\* of line 407 begins at offset p, else -1
UrlBodyAt(text, p) ==
    IF Slice(text, p, p + Len(UrlMarker) + Len(HttpScheme))
           # UrlMarker \o HttpScheme
    THEN -1
    ELSE LET q == p + Len(UrlMarker) + Len(HttpScheme)
             r == IF Slice(text, q, q + 1) = <<"s">> THEN q + 1 ELSE q
         IN  IF Slice(text, r, r + Len(SchemeTail)) = SchemeTail
                   /\ SkipNonSpaces(text, r + Len(SchemeTail))
                          > r + Len(SchemeTail)
             THEN r + Len(SchemeTail)
             ELSE -1

\* re.findall(r'URL: (https?://[^\s]+)', text) from offset p on: the groups of
\* the matches, left to right, no two overlapping
RECURSIVE FindUrls(_, _)
FindUrls(text, p) ==
    IF p >= Len(text) THEN <<>>
    ELSE IF UrlBodyAt(text, p) = -1 THEN FindUrls(text, p + 1)
    ELSE <<Slice(text, p + Len(UrlMarker),
                 SkipNonSpaces(text, UrlBodyAt(text, p)))>>
         \o FindUrls(text, SkipNonSpaces(text, UrlBodyAt(text, p)))

\* lines 399-410: the keyword search.  kb.available is
\* SMART_SEARCH_AVAILABLE, kb.searcher whether smart_searcher is set,
\* kb.keyword what search_and_get_context gives: kind "raises", "none"
\* (None) or "context" with its text
KeywordPart(kb) ==
    IF ~(kb.available /\ kb.searcher)
    THEN [parts |-> <<>>, methods |-> <<>>, sources |-> <<>>, calls |-> <<>>]
    ELSE IF kb.keyword.kind = "context" /\ kb.keyword.text # <<>>
    THEN [parts |-> << [label |-> KeywordLabel,
                        context |-> kb.keyword.text] >>,
          methods |-> <<KeywordLabel>>,
          sources |-> FindUrls(kb.keyword.text, 0),
          calls |-> <<"search_and_get_context">>]
    ELSE [parts |-> <<>>, methods |-> <<>>, sources |-> <<>>,
          calls |-> <<"search_and_get_context">>]

\* lines 413-424: the vector search.  kb.vector.kind is "unset"
\* (vector_store is None), "raises", or "docs" with the number of documents
\* similarity_search gives
VectorPart(kb) ==
    IF kb.vector.kind = "unset"
    THEN [parts |-> <<>>, methods |-> <<>>, calls |-> <<>>]
    ELSE IF kb.vector.kind = "raises" \/ kb.vector.documents = 0
    THEN [parts |-> <<>>, methods |-> <<>>,
          calls |-> <<"similarity_search">>]
    ELSE [parts |-> << [label |-> VectorLabel,
                        context |-> [documents |-> kb.vector.documents]] >>,
          methods |-> <<VectorLabel>>,
          calls |-> <<"similarity_search">>]

\* search_knowledge_base with the try of lines 401-410 left out: a failing
\* keyword search is caught at line 428
SearchKnowledgeBaseOuterTry(kb) ==
    IF kb.available /\ kb.searcher /\ kb.keyword.kind = "raises"
    THEN [context_parts |-> <<>>, sources |-> <<>>, search_methods |-> <<>>,
          exc |-> "none", calls |-> <<"search_and_get_context">>]
    ELSE [context_parts |-> KeywordPart(kb).parts \o VectorPart(kb).parts,
          sources |-> KeywordPart(kb).sources,
          search_methods |-> KeywordPart(kb).methods \o VectorPart(kb).methods,
          exc |-> "none",
          calls |-> KeywordPart(kb).calls \o VectorPart(kb).calls]

\* lines 391-430
search_knowledge_base(kb) ==
    [context_parts |-> KeywordPart(kb).parts \o VectorPart(kb).parts,
     sources |-> KeywordPart(kb).sources,
     search_methods |-> KeywordPart(kb).methods \o VectorPart(kb).methods,
     exc |-> "none",
     calls |-> KeywordPart(kb).calls \o VectorPart(kb).calls]

\* contexts search_and_get_context can give:
\*   "Article 1: A\nURL: https://h/a\n\nContent:\nx\n\n"
\*   "Article 1: A\nURL: http://h/a\n\nArticle 2: B\nURL: https://h/b\n"
\*   "Article 1: C\nURL: ftp://h/c\n"
\*   "Article 1: D\nURL: https://h/d\n\nContent:\nsee URL: http://h/z now\n"
\*   "Article 1: E\nURL: https:// \nurl: http://h/e\n"
KeywordContexts ==
    { <<"A", "r", "t", "i", "c", "l", "e", " ", "1", ":", " ", "A", "\n", "U", "R", "L", ":", " ", "h", "t", "t", "p", "s", ":", "/", "/", "h", "/", "a", "\n", "\n", "C", "o", "n", "t", "e", "n", "t", ":", "\n", "x", "\n", "\n">>,
      <<"A", "r", "t", "i", "c", "l", "e", " ", "1", ":", " ", "A", "\n", "U", "R", "L", ":", " ", "h", "t", "t", "p", ":", "/", "/", "h", "/", "a", "\n", "\n", "A", "r", "t", "i", "c", "l", "e", " ", "2", ":", " ", "B", "\n", "U", "R", "L", ":", " ", "h", "t", "t", "p", "s", ":", "/", "/", "h", "/", "b", "\n">>,
      <<"A", "r", "t", "i", "c", "l", "e", " ", "1", ":", " ", "C", "\n", "U", "R", "L", ":", " ", "f", "t", "p", ":", "/", "/", "h", "/", "c", "\n">>,
      <<"A", "r", "t", "i", "c", "l", "e", " ", "1", ":", " ", "D", "\n", "U", "R", "L", ":", " ", "h", "t", "t", "p", "s", ":", "/", "/", "h", "/", "d", "\n", "\n", "C", "o", "n", "t", "e", "n", "t", ":", "\n", "s", "e", "e", " ", "U", "R", "L", ":", " ", "h", "t", "t", "p", ":", "/", "/", "h", "/", "z", " ", "n", "o", "w", "\n">>,
      <<"A", "r", "t", "i", "c", "l", "e", " ", "1", ":", " ", "E", "\n", "U", "R", "L", ":", " ", "h", "t", "t", "p", "s", ":", "/", "/", " ", "\n", "u", "r", "l", ":", " ", "h", "t", "t", "p", ":", "/", "/", "h", "/", "e", "\n">> }

KeywordOutcomes ==
    {[kind |-> "raises"], [kind |-> "none"]}
    \cup {[kind |-> "context", text |-> c] : c \in KeywordContexts}

\* the most documents similarity_search gives (k=3 at line 416)
VectorK == 3

VectorOutcomes ==
    {[kind |-> k, documents |-> 0] : k \in {"unset", "raises"}}
    \cup {[kind |-> "docs", documents |-> n] : n \in 0..VectorK}

KnowledgeBases ==
    [available : BOOLEAN, searcher : BOOLEAN, keyword : KeywordOutcomes,
     vector : VectorOutcomes]

InitKnowledgeBase ==
    \E kb \in KnowledgeBases :
        /\ articles = <<>>
        /\ instance = kb.searcher
        /\ loaded = "missing"
        /\ lastOp = "call search_knowledge_base"
        /\ args = [kb |-> kb]
        /\ result = [exc |-> "none"]

ApplyKnowledgeBase ==
    /\ lastOp = "call search_knowledge_base"
    /\ lastOp' = "search_knowledge_base"
    /\ result' = search_knowledge_base(args.kb)
    /\ UNCHANGED <<articles, instance, loaded, args>>

SpecKnowledgeBase == InitKnowledgeBase /\ [][ApplyKnowledgeBase]_vars

(***************************************************************************)
(* Live help-centre search: ZendeskRealTimeSearch                          *)
(***************************************************************************)
\* line 20: the default base_url, split where urljoin cuts it
ZendeskOrigin == <<"h", "t", "t", "p", "s", ":", "/", "/", "d", "v", "s", "u", "m", ".", "z", "e", "n", "d", "e", "s", "k", ".", "c", "o", "m">>
ZendeskDirectory == ZendeskOrigin \o <<"/", "h", "c", "/">>
ZendeskBaseUrl == ZendeskDirectory \o <<"e", "n", "-", "u", "s">>
ArticlesPath == <<"/", "a", "r", "t", "i", "c", "l", "e", "s", "/">>

\* urljoin(self.base_url, href): an empty href gives the base, an absolute
\* URL itself, a path from the root replaces the path of the base, any
\* other href replaces its last segment
UrlJoin(href) ==
    IF href = <<>> THEN ZendeskBaseUrl
    ELSE IF Slice(href, 0, 4) = <<"h", "t", "t", "p">> THEN href
    ELSE IF Head(href) = "/" THEN ZendeskOrigin \o href
    ELSE ZendeskDirectory \o href

\* line 122: the snippet keeps its first 200 characters
ZendeskSnippetCut == 200

\* the URLs of a result list
ResultUrls(results) == {results[i].url : i \in DOMAIN results}

\* lines 112-113: the link of an item found by a container selector
ItemLinks(item) ==
    IF \E k \in DOMAIN item.links : Contains(item.links[k].href, ArticlesPath)
    THEN <<item.links[CHOOSE k \in DOMAIN item.links :
                /\ Contains(item.links[k].href, ArticlesPath)
                /\ \A j \in DOMAIN item.links :
                      Contains(item.links[j].href, ArticlesPath) => k <= j]>>
    ELSE SubSeq(item.links, 1, Min2(1, Len(item.links)))

\* lines 103-139 for one item: the record appended to results, if any
ParseItem(selector, item, results) ==
    LET found == IF selector = "a"
                 THEN <<[title |-> item.title, href |-> item.href]>>
                 ELSE ItemLinks(item)
    IN  IF found = <<>> THEN <<>>
        ELSE IF Strip(found[1].title) = <<>>
                  \/ ~Contains(UrlJoin(found[1].href), ArticlesPath)
        THEN <<>>
        ELSE IF UrlJoin(found[1].href) \in ResultUrls(results) THEN <<>>
        ELSE <<[title |-> Strip(found[1].title),
                url |-> UrlJoin(found[1].href),
                snippet |-> SliceTo(Strip(item.snippet), ZendeskSnippetCut)]>>

\* lines 101-139: the loop over the items of one selector
RECURSIVE ParseItems(_, _, _, _)
ParseItems(selector, items, results, i) ==
    IF i > Len(items) THEN results
    ELSE ParseItems(selector, items,
                    results \o ParseItem(selector, items[i], results), i + 1)

\* re.compile(r'/articles/\d+') finds a match in href
HasNumberedArticle(href) ==
    \E d \in Range(Digits) : Contains(href, ArticlesPath \o <<d>>)

\* lines 92-97: soup.find_all for one selector; the selector "a" keeps the
\* tags whose href has an article number
FoundItems(group) ==
    IF group.selector = "a"
    THEN SelectSeq(group.items, LAMBDA item : HasNumberedArticle(item.href))
    ELSE group.items

\* lines 90-142: the selectors in order, until one gives results
RECURSIVE UrlSearch(_, _, _)
UrlSearch(groups, max_results, g) ==
    IF g > Len(groups) THEN <<>>
    ELSE IF ParseItems(groups[g].selector,
                       SliceTo(FoundItems(groups[g]), max_results), <<>>, 1)
                # <<>>
    THEN ParseItems(groups[g].selector,
                    SliceTo(FoundItems(groups[g]), max_results), <<>>, 1)
    ELSE UrlSearch(groups, max_results, g + 1)

\* lines 170-180: the loop over the article links of the search-box page
RECURSIVE BoxLinks(_, _, _)
BoxLinks(links, results, i) ==
    IF i > Len(links) THEN results
    ELSE IF Strip(links[i].title) # <<>>
              /\ UrlJoin(links[i].href) \notin ResultUrls(results)
    THEN BoxLinks(links,
                  Append(results, [title |-> Strip(links[i].title),
                                   url |-> UrlJoin(links[i].href),
                                   snippet |-> <<>>]), i + 1)
    ELSE BoxLinks(links, results, i + 1)

\* lines 144-184: the search box.  box.kind is "raises" (the page or a key
\* press fails), "absent" (no input found) or "links" with the <a> tags of
\* the page
BoxSearch(box, max_results) ==
    IF box.kind = "links"
    THEN BoxLinks(SliceTo(SelectSeq(box.links,
                              LAMBDA link : HasNumberedArticle(link.href)),
                          max_results), <<>>, 1)
    ELSE <<>>

\* str.split(): the maximal runs of characters that are no spaces
RECURSIVE SplitWords(_, _, _)
SplitWords(s, i, cur) ==
    IF i > Len(s) THEN (IF cur = <<>> THEN <<>> ELSE <<cur>>)
    ELSE IF IsSpace(s[i])
    THEN (IF cur = <<>> THEN <<>> ELSE <<cur>>) \o SplitWords(s, i + 1, <<>>)
    ELSE SplitWords(s, i + 1, Append(cur, s[i]))

\* lines 220-237: the loop over the article links of the main page
RECURSIVE BrowseLinks(_, _, _, _, _)
BrowseLinks(links, keywords, max_results, results, i) ==
    IF i > Len(links) THEN results
    ELSE IF /\ \E k \in DOMAIN keywords :
                  Contains(Lower(Strip(links[i].title)), keywords[k])
            /\ UrlJoin(links[i].href) \notin ResultUrls(results)
    THEN IF Len(results) + 1 >= max_results
         THEN Append(results, [title |-> Strip(links[i].title),
                               url |-> UrlJoin(links[i].href),
                               snippet |-> <<>>])
         ELSE BrowseLinks(links, keywords, max_results,
                          Append(results, [title |-> Strip(links[i].title),
                                           url |-> UrlJoin(links[i].href),
                                           snippet |-> <<>>]), i + 1)
    ELSE BrowseLinks(links, keywords, max_results, results, i + 1)

\* lines 206-242: browse.kind is "raises" or "links" with the <a> tags of
\* the main page
browse_categories_for_keywords(query, max_results, browse) ==
    IF browse.kind = "links"
    THEN BrowseLinks(SelectSeq(browse.links,
                         LAMBDA link : Contains(link.href, ArticlesPath)),
                     SplitWords(Lower(query), 1, <<>>), max_results, <<>>, 1)
    ELSE <<>>

\* lines 64-193: the three strategies in turn
SearchStrategies(query, max_results, site) ==
    IF UrlSearch(site.groups, max_results, 1) # <<>>
    THEN UrlSearch(site.groups, max_results, 1)
    ELSE IF BoxSearch(site.box, max_results) # <<>>
    THEN BoxSearch(site.box, max_results)
    ELSE browse_categories_for_keywords(query, max_results, site.browse)

\* "Gateway", " gateway " and "scan"
ZendeskQueries == { <<"G", "a", "t", "e", "w", "a", "y">>, <<" ", "g", "a", "t", "e", "w", "a", "y", " ">>, <<"s", "c", "a", "n">> }

\* line 50: max_results=3
ZendeskDefaultResults == 3

NoBox == [kind |-> "absent", links |-> <<>>]
NoBrowse == [kind |-> "raises", links |-> <<>>]

\* the article links used in the pages
LinkGatewaySetup == [title |-> <<"G", "a", "t", "e", "w", "a", "y", " ", "s", "e", "t", "u", "p">>, href |-> <<"/", "h", "c", "/", "a", "r", "t", "i", "c", "l", "e", "s", "/", "1">>]
LinkGatewaySetupAgain ==
    [title |-> <<" ", "G", "a", "t", "e", "w", "a", "y", " ", "s", "e", "t", "u", "p", " ">>,
     href |-> <<"h", "t", "t", "p", "s", ":", "/", "/", "d", "v", "s", "u", "m", ".", "z", "e", "n", "d", "e", "s", "k", ".", "c", "o", "m", "/", "h", "c", "/", "a", "r", "t", "i", "c", "l", "e", "s", "/", "1">>]
LinkGatewayNotes == [title |-> <<"G", "a", "t", "e", "w", "a", "y", " ", "n", "o", "t", "e", "s">>, href |-> <<"a", "r", "t", "i", "c", "l", "e", "s", "/", "5">>]
LinkGatewayInstall == [title |-> <<"G", "a", "t", "e", "w", "a", "y", " ", "i", "n", "s", "t", "a", "l", "l">>, href |-> <<"/", "h", "c", "/", "a", "r", "t", "i", "c", "l", "e", "s", "/", "2">>]
LinkScanGuide == [title |-> <<"S", "c", "a", "n", " ", "g", "u", "i", "d", "e">>, href |-> <<"/", "h", "c", "/", "a", "r", "t", "i", "c", "l", "e", "s", "/", "3">>]
LinkSections == [title |-> <<"S", "e", "c", "t", "i", "o", "n", "s">>, href |-> <<"/", "h", "c", "/", "s", "e", "c", "t", "i", "o", "n", "s", "/", "9">>]
LinkUntitled == [title |-> <<>>, href |-> <<"/", "h", "c", "/", "a", "r", "t", "i", "c", "l", "e", "s", "/", "4">>]

LinkGatewayLogs == [title |-> <<"G", "a", "t", "e", "w", "a", "y", " ", "l", "o", "g", "s">>, href |-> <<"/", "h", "c", "/", "a", "r", "t", "i", "c", "l", "e", "s", "/", "6">>]

PageLinks ==
    <<LinkGatewaySetup, LinkGatewayInstall, LinkGatewaySetupAgain,
      LinkUntitled, LinkGatewayNotes, LinkScanGuide, LinkSections,
      LinkGatewayLogs>>

\* a search page whose first selector finds container items
SiteResultItems ==
    [setup |-> "ok", page |-> "ok",
     groups |-> << [selector |-> "div",
                    items |-> [i \in DOMAIN PageLinks |->
                                 [title |-> <<>>, href |-> <<>>,
                                  links |-> <<LinkSections, PageLinks[i]>>,
                                  snippet |-> <<" ", "s", " ">>]]] >>,
     box |-> NoBox, browse |-> NoBrowse]

\* a search page where only the direct article links give results
SiteDirectLinks ==
    [setup |-> "ok", page |-> "ok",
     groups |-> << [selector |-> "div",
                    items |-> << [title |-> <<>>, href |-> <<>>,
                                  links |-> <<LinkSections>>,
                                  snippet |-> <<>>],
                                 [title |-> <<>>, href |-> <<>>,
                                  links |-> <<>>, snippet |-> <<>>] >>],
                   [selector |-> "a",
                    items |-> [i \in DOMAIN PageLinks |->
                                 [title |-> PageLinks[i].title,
                                  href |-> PageLinks[i].href,
                                  links |-> <<>>, snippet |-> <<>>]]] >>,
     box |-> NoBox, browse |-> NoBrowse]

\* results only through the search box
SiteSearchBox ==
    [setup |-> "ok", page |-> "ok", groups |-> <<>>,
     box |-> [kind |-> "links", links |-> PageLinks], browse |-> NoBrowse]

\* results only by browsing the main page
SiteBrowse ==
    [setup |-> "ok", page |-> "ok", groups |-> <<>>,
     box |-> [kind |-> "raises", links |-> <<>>],
     browse |-> [kind |-> "links", links |-> PageLinks]]

\* nothing anywhere
SiteEmpty ==
    [setup |-> "ok", page |-> "ok", groups |-> <<>>, box |-> NoBox,
     browse |-> NoBrowse]

Sites ==
    {SiteResultItems, SiteDirectLinks, SiteSearchBox, SiteBrowse, SiteEmpty,
     [SiteEmpty EXCEPT !.page = "raises"],
     [SiteResultItems EXCEPT !.setup = "fails"],
     [SiteResultItems EXCEPT !.setup = "fails after start"]}

\* what the three strategies give for each input, computed once
StrategiesTable ==
    [query \in ZendeskQueries |->
        [max_results \in 1..ZendeskDefaultResults |->
            [site \in Sites |-> SearchStrategies(query, max_results, site)]]]

StrategiesOf(query, max_results, site) ==
    IF query \in ZendeskQueries /\ max_results \in 1..ZendeskDefaultResults
          /\ site \in Sites
    THEN StrategiesTable[query][max_results][site]
    ELSE SearchStrategies(query, max_results, site)

\* line 56
CacheKey(query) == Strip(Lower(query))

\* the cache with one more entry
CacheWith(cache, key, results) ==
    [k \in DOMAIN cache \cup {key} |-> IF k = key THEN results ELSE cache[k]]

\* search_zendesk that also stores the empty list of a failed search
SearchZendeskCachesFailures(self, query, max_results, site) ==
    IF CacheKey(query) \in DOMAIN self.search_cache
    THEN [driver |-> self.driver, search_cache |-> self.search_cache,
          returned |-> self.search_cache[CacheKey(query)],
          outcome |-> "cached", browser |-> <<>>]
    ELSE IF ~self.driver /\ site.setup # "ok"
    THEN [driver |-> site.setup = "fails after start",
          search_cache |-> self.search_cache,
          returned |-> <<>>, outcome |-> "setup failed",
          browser |-> <<"setup_driver">>]
    ELSE IF site.page = "raises"
    THEN [driver |-> TRUE,
          search_cache |-> CacheWith(self.search_cache, CacheKey(query), <<>>),
          returned |-> <<>>, outcome |-> "exception",
          browser |-> <<"setup_driver", "get">>]
    ELSE [driver |-> TRUE,
          search_cache |-> CacheWith(self.search_cache, CacheKey(query),
                               StrategiesOf(query, max_results, site)),
          returned |-> StrategiesOf(query, max_results, site),
          outcome |-> "completed",
          browser |-> <<"setup_driver", "get">>]

\* lines 50-204.  self is the object (driver set or not, search_cache);
\* site is what the browser meets during this call: setup "ok", "fails"
\* (no driver) or "fails after start" (driver kept, line 43 raises); page
\* "raises" or "ok"; the groups of items per selector; the search box; the
\* main page.  browser lists the uses of the browser.
search_zendesk(self, query, max_results, site) ==
    IF CacheKey(query) \in DOMAIN self.search_cache
    THEN [driver |-> self.driver, search_cache |-> self.search_cache,
          returned |-> self.search_cache[CacheKey(query)],
          outcome |-> "cached", browser |-> <<>>]
    ELSE IF ~self.driver /\ site.setup # "ok"
    THEN [driver |-> site.setup = "fails after start",
          search_cache |-> self.search_cache,
          returned |-> <<>>, outcome |-> "setup failed",
          browser |-> <<"setup_driver">>]
    ELSE IF site.page = "raises"
    THEN [driver |-> TRUE, search_cache |-> self.search_cache,
          returned |-> <<>>, outcome |-> "exception",
          browser |-> <<"setup_driver", "get">>]
    ELSE [driver |-> TRUE,
          search_cache |-> CacheWith(self.search_cache, CacheKey(query),
                               StrategiesOf(query, max_results, site)),
          returned |-> StrategiesOf(query, max_results, site),
          outcome |-> "completed",
          browser |-> <<"setup_driver", "get">>]

\* __init__ (lines 20-23): no driver, empty cache.  result holds the object
\* and what the last call returned.
InitZendesk ==
    /\ articles = <<>>
    /\ instance = TRUE
    /\ loaded = "missing"
    /\ lastOp = "init"
    /\ args = [query |-> <<>>, max_results |-> ZendeskDefaultResults]
    /\ result = [driver |-> FALSE, search_cache |-> <<>>, returned |-> <<>>,
                 outcome |-> "none", browser |-> <<>>]

SearchZendesk ==
    /\ \E query \in ZendeskQueries, max_results \in 1..ZendeskDefaultResults,
          site \in Sites :
          /\ args' = [query |-> query, max_results |-> max_results]
          /\ result' = search_zendesk(result, query, max_results, site)
    /\ lastOp' = "search_zendesk"
    /\ UNCHANGED <<articles, instance, loaded>>

\* close (lines 332-336)
CloseZendesk ==
    /\ lastOp' = "close"
    /\ result' = [result EXCEPT !.driver = FALSE, !.returned = <<>>,
                                !.outcome = "none",
                                !.browser = IF result.driver THEN <<"quit">>
                                            ELSE <<>>]
    /\ UNCHANGED <<articles, instance, loaded, args>>

NextZendesk == SearchZendesk \/ CloseZendesk

SpecZendesk == InitZendesk /\ [][NextZendesk]_vars

(***************************************************************************)
(* The help-centre scraper: ZendeskSeleniumScraper (zendesk_scraper.py)    *)
(***************************************************************************)
\* lines 96, 117: the path markers tested on each href
CategoriesPath == <<"/", "c", "a", "t", "e", "g", "o", "r", "i", "e", "s", "/">>
SectionsPath == <<"/", "s", "e", "c", "t", "i", "o", "n", "s", "/">>

\* lines 93-99: the category and section links of the home page, joined to
\* the base URL, each kept once
RECURSIVE CategoryLinks(_, _, _)
CategoryLinks(hrefs, categories, i) ==
    IF i > Len(hrefs) THEN categories
    ELSE IF (Contains(hrefs[i], CategoriesPath) \/ Contains(hrefs[i], SectionsPath))
              /\ UrlJoin(hrefs[i]) \notin Range(categories)
    THEN CategoryLinks(hrefs, Append(categories, UrlJoin(hrefs[i])), i + 1)
    ELSE CategoryLinks(hrefs, categories, i + 1)

\* lines 115-121 and 212-217: the article links of a page that were not
\* visited before; found.urls grows with found.visited
RECURSIVE ArticleLinks(_, _, _)
ArticleLinks(hrefs, found, i) ==
    IF i > Len(hrefs) THEN found
    ELSE IF Contains(hrefs[i], ArticlesPath)
              /\ UrlJoin(hrefs[i]) \notin found.visited
    THEN ArticleLinks(hrefs,
                      [urls |-> Append(found.urls, UrlJoin(hrefs[i])),
                       visited |-> found.visited \cup {UrlJoin(hrefs[i])}],
                      i + 1)
    ELSE ArticleLinks(hrefs, found, i + 1)

\* lines 126-191: scrape_article gives the article data, or None when the
\* page does not load, has no content, or an exception is caught (line 189)
scrape_article(article_url, page) ==
    IF page.load = "fails" \/ page.source = "raises" \/ page.content = "missing"
    THEN <<>>
    ELSE <<[title |-> IF page.title = <<>> THEN <<"N", "o", " ", "T", "i", "t", "l", "e">> ELSE Strip(page.title),
            url |-> article_url,
            content |-> page.content]>>

\* the pages the browser is given
HomeCategories ==
    [load |-> "ok", source |-> "ok",
     hrefs |-> <<<<"/", "h", "c", "/", "e", "n", "-", "u", "s", "/", "c", "a", "t", "e", "g", "o", "r", "i", "e", "s", "/", "1">>,
                 <<"/", "h", "c", "/", "e", "n", "-", "u", "s", "/", "s", "e", "c", "t", "i", "o", "n", "s", "/", "9">>,
                 <<"h", "t", "t", "p", "s", ":", "/", "/", "d", "v", "s", "u", "m", ".", "z", "e", "n", "d", "e", "s", "k", ".", "c", "o", "m", "/", "h", "c", "/", "e", "n", "-", "u", "s", "/", "c", "a", "t", "e", "g", "o", "r", "i", "e", "s", "/", "1">>,
                 <<"/", "h", "c", "/", "a", "r", "t", "i", "c", "l", "e", "s", "/", "1">>>>]
HomeArticlesOnly ==
    [load |-> "ok", source |-> "ok",
     hrefs |-> <<<<"/", "h", "c", "/", "a", "r", "t", "i", "c", "l", "e", "s", "/", "1">>,
                 <<"/", "h", "c", "/", "a", "r", "t", "i", "c", "l", "e", "s", "/", "2">>,
                 <<"h", "t", "t", "p", "s", ":", "/", "/", "d", "v", "s", "u", "m", ".", "z", "e", "n", "d", "e", "s", "k", ".", "c", "o", "m", "/", "h", "c", "/", "a", "r", "t", "i", "c", "l", "e", "s", "/", "1">>>>]
HomeBare == [load |-> "ok", source |-> "ok", hrefs |-> <<<<"/", "h", "c", "/", "e", "n", "-", "u", "s", "/", "s", "i", "g", "n", "i", "n">>>>]
HomeUnreachable == [load |-> "fails", source |-> "ok", hrefs |-> <<>>]
HomeBrowserDies == [load |-> "ok", source |-> "raises", hrefs |-> <<>>]
HomePages == {HomeCategories, HomeArticlesOnly, HomeBare, HomeUnreachable, HomeBrowserDies}

CategoryListing ==
    [load |-> "ok", source |-> "ok",
     hrefs |-> <<<<"/", "h", "c", "/", "a", "r", "t", "i", "c", "l", "e", "s", "/", "1">>,
                 <<"/", "h", "c", "/", "a", "r", "t", "i", "c", "l", "e", "s", "/", "3">>,
                 <<"/", "h", "c", "/", "e", "n", "-", "u", "s", "/", "c", "a", "t", "e", "g", "o", "r", "i", "e", "s", "/", "1">>>>]
CategoryPages ==
    {CategoryListing,
     [load |-> "ok", source |-> "ok", hrefs |-> <<>>],
     [load |-> "fails", source |-> "ok", hrefs |-> <<>>],
     [load |-> "ok", source |-> "raises", hrefs |-> <<>>]}

ArticlePages ==
    {[load |-> "ok", source |-> "ok", title |-> <<" ", "G", "a", "t", "e", "w", "a", "y", " ", "s", "e", "t", "u", "p", " ">>, content |-> "body"],
     [load |-> "ok", source |-> "ok", title |-> <<>>, content |-> "body"],
     [load |-> "ok", source |-> "ok", title |-> <<"S", "c", "a", "n", " ", "g", "u", "i", "d", "e">>, content |-> "missing"],
     [load |-> "fails", source |-> "ok", title |-> <<>>, content |-> "missing"],
     [load |-> "ok", source |-> "raises", title |-> <<>>, content |-> "missing"]}

\* lines 50-61: what setup_driver meets: the driver install raises, Chrome
\* does not start, the first script raises in the started browser, or all
\* three succeed
SetupOutcomes == {"ok", "install_raises", "chrome_raises", "script_raises"}

ScraperSites ==
    [setup : SetupOutcomes, home : HomePages, category : CategoryPages,
     article : ArticlePages]

\* lines 21-26: a new scraper, before scrape_all; browser is the Chrome
\* process that self.driver refers to once it is created
InitScraper ==
    /\ articles = <<>>
    /\ instance = "none"
    /\ loaded = FALSE
    /\ lastOp = "init"
    /\ args \in ScraperSites
    /\ result = [pc |-> "setup", driver |-> "none", browser |-> "absent",
                 articles |-> <<>>, visited_urls |-> {}, categories |-> <<>>,
                 all_article_urls |-> <<>>, next |-> 1, pending |-> "none",
                 returned |-> "none"]

\* lines 28-61 and 200-205: setup_driver; when it returns False scrape_all
\* returns [] at line 205, before the try statement of line 207
SetupDriver ==
    /\ result.pc = "setup"
    /\ lastOp' = "setup_driver"
    /\ result' = IF args.setup = "ok"
                 THEN [result EXCEPT !.driver = "chrome", !.browser = "running",
                                     !.pc = "categories"]
                 ELSE IF args.setup = "script_raises"
                 THEN [result EXCEPT !.driver = "chrome", !.browser = "running",
                                     !.pc = "returned", !.returned = "empty"]
                 ELSE [result EXCEPT !.pc = "returned", !.returned = "empty"]
    /\ UNCHANGED <<articles, instance, loaded, args>>

\* lines 82-102 and 209: get_all_categories inside the try statement; an
\* exception of page_source leaves through the finally clause
GetAllCategories ==
    /\ result.pc = "categories"
    /\ lastOp' = "get_all_categories"
    /\ result' = IF args.home.load = "fails"
                 THEN [result EXCEPT !.pc = "direct"]
                 ELSE IF args.home.source = "raises"
                 THEN [result EXCEPT !.pc = "finally", !.pending = "exception"]
                 ELSE [result EXCEPT
                         !.categories = CategoryLinks(args.home.hrefs, <<>>, 1),
                         !.pc = IF CategoryLinks(args.home.hrefs, <<>>, 1) = <<>>
                                THEN "direct" ELSE "collect"]
    /\ UNCHANGED <<articles, instance, loaded, args>>

\* the state after lines 211-224, given the article links found directly
DirectOutcome(r, found) ==
    IF found.urls = <<>>
    THEN [r EXCEPT !.pc = "finally", !.pending = "empty"]
    ELSE [r EXCEPT !.categories = found.urls, !.visited_urls = found.visited,
                   !.pc = "collect"]

\* lines 211-224: without categories, the article links of the home page
\* stand in for them; with none of those either, return [] at line 224
FindArticlesDirectly ==
    /\ result.pc = "direct"
    /\ lastOp' = "find_articles_directly"
    /\ result' = IF args.home.load = "fails"
                 THEN [result EXCEPT !.pc = "finally", !.pending = "empty"]
                 ELSE IF args.home.source = "raises"
                 THEN [result EXCEPT !.pc = "finally", !.pending = "exception"]
                 ELSE DirectOutcome(result,
                          ArticleLinks(args.home.hrefs,
                                       [urls |-> <<>>, visited |-> result.visited_urls], 1))
    /\ UNCHANGED <<articles, instance, loaded, args>>

\* lines 104-124 and 234-235: get_articles_from_category, then extend
CategoryOutcome(r, found) ==
    [r EXCEPT !.all_article_urls = found.urls, !.visited_urls = found.visited,
              !.next = r.next + 1]

\* lines 227-241: one turn of the loop over the categories, and after the
\* last turn the test of line 240
CollectArticleUrls ==
    /\ result.pc = "collect"
    /\ lastOp' = "collect_article_urls"
    /\ result' = IF result.next > Len(result.categories)
                 THEN IF result.all_article_urls = <<>>
                      THEN [result EXCEPT !.pc = "finally", !.pending = "empty"]
                      ELSE [result EXCEPT !.pc = "scrape", !.next = 1]
                 ELSE IF Contains(result.categories[result.next], ArticlesPath)
                 THEN [result EXCEPT
                         !.all_article_urls = Append(@, result.categories[result.next]),
                         !.next = @ + 1]
                 ELSE IF args.category.load = "fails"
                 THEN [result EXCEPT !.next = @ + 1]
                 ELSE IF args.category.source = "raises"
                 THEN [result EXCEPT !.pc = "finally", !.pending = "exception"]
                 ELSE CategoryOutcome(result,
                          ArticleLinks(args.category.hrefs,
                                       [urls |-> result.all_article_urls,
                                        visited |-> result.visited_urls], 1))
    /\ UNCHANGED <<articles, instance, loaded, args>>

\* lines 243-252: one turn of the loop over the article URLs, and after the
\* last turn the return of line 252
ScrapeArticle ==
    /\ result.pc = "scrape"
    /\ lastOp' = "scrape_article"
    /\ result' = IF result.next > Len(result.all_article_urls)
                 THEN [result EXCEPT !.pc = "finally", !.pending = "articles"]
                 ELSE [result EXCEPT
                         !.articles = @ \o scrape_article(result.all_article_urls[result.next],
                                                          args.article),
                         !.next = @ + 1]
    /\ UNCHANGED <<articles, instance, loaded, args>>

\* lines 254-258: the finally clause quits the driver, then scrape_all
\* returns or the exception leaves it
CloseBrowser ==
    /\ result.pc = "finally"
    /\ lastOp' = "close_browser"
    /\ result' = [result EXCEPT
                    !.browser = IF result.driver # "none" THEN "quit" ELSE @,
                    !.pc = "returned",
                    !.returned = result.pending]
    /\ UNCHANGED <<articles, instance, loaded, args>>

NextScraper ==
    \/ SetupDriver
    \/ GetAllCategories
    \/ FindArticlesDirectly
    \/ CollectArticleUrls
    \/ ScrapeArticle
    \/ CloseBrowser

SpecScraper == InitScraper /\ [][NextScraper]_vars

(***************************************************************************)
(* search with default arguments beside search_and_get_context             *)
(***************************************************************************)
\* line 83: max_results: int = 5
DefaultMaxResults == 5

\* "api key error codes": four keywords
QueryApiKeyErrorCodes == <<"a", "p", "i", " ", "k", "e", "y", " ", "e", "r", "r", "o", "r", " ", "c", "o", "d", "e", "s">>

\* "Errors" / "use it": one of the four keywords, in the title
ArticleErrors ==
    [title |-> <<"E", "r", "r", "o", "r", "s">>, url |-> "u6", content |-> <<"u", "s", "e", " ", "i", "t">>,
     scraped_at |-> "2024-01-06"]

\* "Notes" / "codes": one of the four keywords, in the body
ArticleCodes ==
    [title |-> <<"N", "o", "t", "e", "s">>, url |-> "u7", content |-> <<"c", "o", "d", "e", "s">>,
     scraped_at |-> "2024-01-07"]

ThresholdPool == {ArticleErrors, ArticleCodes, ArticleApiKeyBody, ArticleNotes}

ThresholdStores ==
    UNION {{s \in [1..n -> ThresholdPool] : \A i, j \in 1..n : s[i] = s[j] => i = j} :
             n \in 0..2}

ThresholdQueries == {QueryApiKey, QueryApiKeyErrorCodes}

\* an instance holding a store, and the arguments of the two calls
InitThreshold ==
    \E store \in ThresholdStores, query \in ThresholdQueries,
       max_articles \in -1..MaxContextArticles, fetch_fresh \in BOOLEAN :
        \E responses \in ContextResponses(
                ContextSelected(store, query, max_articles), fetch_fresh) :
            /\ articles = store
            /\ instance = TRUE
            /\ loaded = "valid"
            /\ lastOp = "call search and search_and_get_context"
            /\ args = [query |-> query, max_articles |-> max_articles,
                       fetch_fresh |-> fetch_fresh, responses |-> responses]
            /\ result = [exc |-> "none"]

\* the two values side by side
BothCalls(found, r) ==
    [default |-> found.results, exc |-> r.exc, none |-> r.none,
     blocks |-> r.blocks, searches |-> r.searches]

\* search(query) with the defaults of line 83, then
\* search_and_get_context(query, max_articles, fetch_fresh) on the same store
ApplyThreshold ==
    /\ lastOp = "call search and search_and_get_context"
    /\ lastOp' = "search and search_and_get_context"
    /\ result' = BothCalls(search(articles, args.query, DefaultMaxResults,
                                  DefaultMinScore),
                           search_and_get_context(articles, args.query,
                                                  args.max_articles,
                                                  args.fetch_fresh,
                                                  args.responses))
    /\ UNCHANGED <<articles, instance, loaded, args>>

SpecThreshold == InitThreshold /\ [][ApplyThreshold]_vars

(***************************************************************************)
(* Properties                                                              *)
(***************************************************************************)
\* The exact division of lines 55 and 59 is representable: every keyword
\* count of the queries divides ScoreDenominator.
ScoreIsExact ==
    \A q \in Queries :
        LET n == Len(query_keywords(Lower(q)))
        IN  n > 0 => ScoreDenominator % n = 0

InTitle(query, article) == Contains(Lower(article.title), Lower(query))
InBody(query, article) == Contains(Lower(article.content), Lower(query))
InBodyOnly(query, article) == InBody(query, article) /\ ~InTitle(query, article)

\* C1: every value calculate_relevance_score returns lies in [0.0, 1.0],
\* whatever coverage and bonuses apply; so does every score search reports.
C1_ScoreWithinUnitInterval ==
    /\ lastOp = "calculate_relevance_score" =>
          /\ result.exc = "none"
          /\ 0 <= result.score /\ result.score <= ScoreScale
    /\ lastOp = "search" =>
          \A i \in DOMAIN result.results :
              /\ 0 <= result.results[i].score
              /\ result.results[i].score <= ScoreScale

\* C1 witness: coverage and bonuses add up to 1.05 and the cap has acted.
C1_Witness ==
    /\ lastOp = "calculate_relevance_score"
    /\ query_keywords(Lower(args.query)) # <<>>
    /\ LET ql == Lower(args.query)
       IN  RawScore(ql, query_keywords(ql), Lower(args.article.title),
                    Lower(args.article.content)) > ScoreScale
    /\ result.score = ScoreScale

\* C2: a query whose tokenization leaves no keyword scores exactly 0.0 on
\* every article, also when the query occurs verbatim in title or body, and
\* no ZeroDivisionError leaves the call.
C2_NoKeywordsScoresZero ==
    (lastOp = "calculate_relevance_score"
       /\ query_keywords(Lower(args.query)) = <<>>)
    => (result.score = 0 /\ result.exc = "none")

\* C2 witness: "how to" has no keyword and occurs verbatim in the title.
C2_Witness ==
    /\ lastOp = "calculate_relevance_score"
    /\ args.query # <<>>
    /\ query_keywords(Lower(args.query)) = <<>>
    /\ InTitle(args.query, args.article)
    /\ result.score = 0

\* C3: search never returns more than max_results items and every returned
\* item has score >= min_score, for every max_results and min_score.  An
\* empty result exceeds no limit, so it satisfies the claim also for a
\* negative max_results.
C3_AtMostMaxResultsAboveMinScore ==
    lastOp = "search" =>
        /\ result.results = <<>> \/ Len(result.results) <= args.max_results
        /\ \A i \in DOMAIN result.results :
              result.results[i].score >= Hundredths(args.min_score)

\* C4: the list search returns is ordered by non-increasing score.
C4_SortedByScore ==
    lastOp = "search" =>
        \A i \in 1..(Len(result.results) - 1) :
            result.results[i].score >= result.results[i + 1].score

\* C4 witness: the store holds the lower-scoring article first and search
\* returns the higher-scoring one first.
C4_Witness ==
    /\ lastOp = "search"
    /\ Len(articles) = 2
    /\ Len(result.results) = 2
    /\ result.results[1].url = articles[2].url
    /\ result.results[2].url = articles[1].url
    /\ result.results[1].score > result.results[2].score

\* C5: on an empty store search returns the empty list, raises nothing and
\* scores nothing, for every query, max_results and min_score.
C5_EmptyStoreEmptyResult ==
    (lastOp = "search" /\ articles = <<>>) =>
        /\ result.results = <<>>
        /\ result.exc = "none"
        /\ result.scored = 0

\* C5 witness: a search with keywords on a store loaded from an empty list.
C5_Witness ==
    /\ lastOp = "search"
    /\ loaded = "valid"
    /\ articles = <<>>
    /\ query_keywords(Lower(args.query)) # <<>>
    /\ args.max_results > 0
    /\ result.results = <<>>

\* the keyword "reset" that "how can I reset" keeps
KeywordReset == <<"r", "e", "s", "e", "t">>

MentionsReset(article) ==
    \/ Contains(Lower(article.title), KeywordReset)
    \/ Contains(Lower(article.content), KeywordReset)

TitleHasNoKeyword(query, article) ==
    \A i \in DOMAIN query_keywords(Lower(query)) :
        ~Contains(Lower(article.title), query_keywords(Lower(query))[i])

\* C6 as stated: for every query, an article whose title contains the full
\* lowercased query scores strictly higher than an article in which the query
\* occurs verbatim only in the body.
C6_TitleMatchBeatsBodyMatch ==
    (lastOp = "calculate_relevance_score"
       /\ InTitle(args.query, args.article)) =>
        \A other \in Pool :
            InBodyOnly(args.query, other) =>
                result.score > ScoreOf(args.query, other).score

\* C6 amended: for every query with at least one keyword, an article whose
\* title contains the full lowercased query scores strictly higher than an
\* article in which the query occurs verbatim only in the body and whose
\* title contains none of the query's keywords.
C6_TitleMatchBeatsPureBodyMatch ==
    (lastOp = "calculate_relevance_score"
       /\ query_keywords(Lower(args.query)) # <<>>
       /\ InTitle(args.query, args.article)) =>
        \A other \in Pool :
            (InBodyOnly(args.query, other)
               /\ TitleHasNoKeyword(args.query, other)) =>
                result.score > ScoreOf(args.query, other).score

\* C6 witness: a title match is scored while the pool holds an article that
\* matches the same query in its body alone, with no keyword in its title.
C6_Witness ==
    /\ lastOp = "calculate_relevance_score"
    /\ query_keywords(Lower(args.query)) # <<>>
    /\ InTitle(args.query, args.article)
    /\ \E other \in Pool :
          /\ InBodyOnly(args.query, other)
          /\ TitleHasNoKeyword(args.query, other)
          /\ ScoreOf(args.query, other).score > 0

\* C7 as stated: "how can I reset" keeps no keyword, every article scores
\* 0.0 and search with the default min_score returns nothing on a non-empty
\* store.
C7_HowCanIResetFindsNothing ==
    /\ (lastOp = "calculate_relevance_score"
          /\ args.query = QueryHowCanIReset) => result.score = 0
    /\ (lastOp = "search" /\ args.query = QueryHowCanIReset
          /\ args.min_score = DefaultMinScore /\ articles # <<>>) =>
            result.results = <<>>

\* C7 amended: "how can I reset" keeps the one keyword "reset".  An article
\* that mentions "reset" neither in title nor in body scores 0.0, and on a
\* non-empty store of such articles search with the default min_score
\* returns nothing; an article that mentions it scores at least 0.3.
C7_HowCanIResetMatchesOnlyReset ==
    /\ query_keywords(Lower(QueryHowCanIReset)) = <<KeywordReset>>
    /\ (lastOp = "calculate_relevance_score"
          /\ args.query = QueryHowCanIReset) =>
            IF MentionsReset(args.article)
            THEN result.score >= Hundredths(ContentWeight)
            ELSE result.score = 0
    /\ (lastOp = "search" /\ args.query = QueryHowCanIReset
          /\ args.min_score = DefaultMinScore /\ articles # <<>>
          /\ \A i \in DOMAIN articles : ~MentionsReset(articles[i])) =>
            result.results = <<>>

\* C7 witness: the query is searched with room for results on a store of two
\* articles, neither of which mentions "reset".
C7_Witness ==
    /\ lastOp = "search"
    /\ args.query = QueryHowCanIReset
    /\ args.min_score = DefaultMinScore
    /\ args.max_results > 0
    /\ Len(articles) = 2
    /\ \A i \in DOMAIN articles : ~MentionsReset(articles[i])
    /\ result.results = <<>>

\* the block search_and_get_context makes of the cached article with this URL
CachedBlock(i, url) ==
    LET cached == Lookup(articles, url)[1]
    IN  [index |-> i, title |-> cached.title, url |-> url, fresh |-> FALSE,
         scraped |-> Get(cached, "scraped_at", "Unknown"),
         content |-> Slice(cached.content, 0, ContextWindow)]

\* C8: with fetch_fresh=true a failed fetch (network error, HTTP error, no
\* extractable content) never leaves search_and_get_context as an exception;
\* the candidate's block is made from the cached article with the same URL
\* and carries the Scraped marker, and every other candidate keeps its own
\* block: the fresh one where its fetch succeeded.
C8_FetchFailureFallsBackToCache ==
    (lastOp = "search_and_get_context" /\ args.fetch_fresh) =>
        LET selected == ContextSelected(articles, args.query,
                                        args.max_articles)
        IN  /\ result.exc = "none"
            /\ selected # <<>> =>
                  /\ ~result.none
                  /\ Len(result.blocks) = Len(selected)
                  /\ \A i \in DOMAIN selected :
                        IF args.responses[i].kind \in FetchFailureKinds
                        THEN result.blocks[i] = CachedBlock(i, selected[i].url)
                        ELSE /\ result.blocks[i].fresh
                             /\ result.blocks[i].index = i
                             /\ result.blocks[i].url = selected[i].url
                             /\ result.blocks[i].content =
                                    args.responses[i].content

\* C8 witness: two candidates are fetched, one fetch fails and the other
\* succeeds; the context holds a cached and a fresh block.
C8_Witness ==
    /\ lastOp = "search_and_get_context"
    /\ args.fetch_fresh
    /\ Len(result.blocks) = 2
    /\ \E i, j \in DOMAIN args.responses :
          /\ args.responses[i].kind \in FetchFailureKinds
          /\ args.responses[j].kind = "ok"
          /\ ~result.blocks[i].fresh
          /\ result.blocks[i].scraped # "n/a"
          /\ result.blocks[j].fresh

C10_AbsentKnowledgeBaseDegrades ==
    loaded \in {"missing", "malformed"} =>
        /\ instance
        /\ result.exc = "none"
        /\ lastOp = "search" => result.results = <<>>
        /\ lastOp = "search_and_get_context" => result.none

\* C10 witness: a context is requested, with a fresh fetch allowed, from a
\* searcher whose snapshot was missing.
C10_Witness ==
    /\ loaded = "missing"
    /\ lastOp = "search_and_get_context"
    /\ args.fetch_fresh
    /\ args.max_articles > 0
    /\ query_keywords(Lower(args.query)) # <<>>
    /\ result.none

\* the tokens of the query that _extract_relevant_snippet looks for
SnippetKeywords(query) ==
    SelectSeq(FindAllWords(Lower(query), 1, <<>>), LAMBDA w : Len(w) > 3)

\* the earliest position where one of them occurs in the lowercased content,
\* -1 when none occurs
EarliestKeyword(query, content) ==
    LET kws == SnippetKeywords(query)
        lowered == Lower(content)
        hits == {p \in 0..Len(content) :
                   \E i \in DOMAIN kws : OccursAt(lowered, kws[i], p)}
    IN  IF hits = {} THEN -1 ELSE CHOOSE p \in hits : \A r \in hits : p <= r

WindowStart(query, content) == Max2(0, EarliestKeyword(query, content) - 100)
WindowEnd(query, content, length) ==
    Min2(Len(content), WindowStart(query, content) + length)

\* content[s:e] between the markers the claim places
MarkedWindow(query, content, length) ==
    LET s == WindowStart(query, content)
        e == WindowEnd(query, content, length)
    IN  (IF s > 0 THEN Ellipsis ELSE <<>>)
        \o Slice(content, s, e)
        \o (IF e < Len(content) THEN Ellipsis ELSE <<>>)

\* C11 as stated: when a query keyword longer than 3 characters occurs in the
\* content, earliest at p, the snippet is content[s:e] with s = max(0, p-100)
\* and e = min(len(content), s + length), with an ellipsis in front exactly
\* when s > 0 and behind exactly when e < len(content).
C11_SnippetIsMarkedWindow ==
    (lastOp = "_extract_relevant_snippet"
        /\ EarliestKeyword(args.query, args.content) >= 0)
    => result.snippet
         = MarkedWindow(args.query, args.content, args.snippet_length)

\* C11 amended: the snippet is that marked window with the white space at
\* its two ends stripped (which shows only where no marker stands: s = 0 or
\* e = len(content)); it has at most length characters plus two markers.
C11_SnippetIsStrippedMarkedWindow ==
    (lastOp = "_extract_relevant_snippet"
        /\ EarliestKeyword(args.query, args.content) >= 0)
    => /\ result.snippet
            = Strip(MarkedWindow(args.query, args.content,
                                 args.snippet_length))
       /\ Len(result.snippet) <= args.snippet_length + 2 * Len(Ellipsis)

\* C11 witness: the keyword is first at 450 and length is 300: the snippet
\* is content[350:650] between two markers.
C11_Witness ==
    /\ lastOp = "_extract_relevant_snippet"
    /\ EarliestKeyword(args.query, args.content) = 450
    /\ args.snippet_length = 300
    /\ Len(args.content) > 650
    /\ result.snippet
         = Ellipsis \o SubSeq(args.content, 351, 650) \o Ellipsis

\* C12: when no query keyword longer than 3 characters occurs in the
\* content, the snippet is the first length characters of the content
\* followed by an ellipsis, whether or not the content is longer than length.
C12_FallbackIsHeadPlusEllipsis ==
    (lastOp = "_extract_relevant_snippet"
        /\ EarliestKeyword(args.query, args.content) = -1)
    => result.snippet
         = Slice(args.content, 0, args.snippet_length) \o Ellipsis

\* C12 witness: a content shorter than length, returned whole with the
\* marker behind it.
C12_Witness ==
    /\ lastOp = "_extract_relevant_snippet"
    /\ EarliestKeyword(args.query, args.content) = -1
    /\ 0 < Len(args.content) /\ Len(args.content) < args.snippet_length
    /\ result.snippet = args.content \o Ellipsis

\* the ranking search_and_get_context asks search for
ContextRanking ==
    search(articles, args.query, 2 * args.max_articles, ContextMinScore).results

\* C13: search_and_get_context calls search exactly once, asking for
\* 2 * max_articles candidates; the context has at most max_articles article
\* blocks, built from the top-ranked candidates in rank order and numbered
\* 1..n consecutively.
C13_ContextTakesTopCandidates ==
    lastOp = "search_and_get_context" =>
        /\ Len(result.searches) = 1
        /\ result.searches[1].max_results = 2 * args.max_articles
        /\ result.blocks = <<>> \/ Len(result.blocks) <= args.max_articles
        /\ Len(result.blocks) <= Len(ContextRanking)
        /\ \A i \in DOMAIN result.blocks :
              /\ result.blocks[i].index = i
              /\ result.blocks[i].url = ContextRanking[i].url

\* the candidates that pass the minimum score of search_and_get_context
ContextCandidates ==
    {i \in DOMAIN articles :
        ScoreOf(args.query, articles[i]).score >= Hundredths(15)}

\* the article a block was built from: the fetched one, or the stored one
ChosenContent(i) ==
    IF result.blocks[i].fresh
    THEN args.responses[i].content
    ELSE LET at == CHOOSE k \in DOMAIN articles :
                     articles[k].url = result.blocks[i].url
         IN  articles[at].content

BlocksAreWindows ==
    /\ ~result.none
    /\ Len(result.blocks) >= 1
    /\ \A i \in DOMAIN result.blocks :
          result.blocks[i].content = Slice(ChosenContent(i), 0, 3500)

\* C14 as stated: in single-threaded use None is returned if and only if no
\* candidate passed the minimum score; whenever one passed and max_articles
\* >= 1, a context is returned with at least one block, each body the first
\* 3500 characters of the chosen article.
C14_NoneIffNoCandidate ==
    lastOp = "search_and_get_context" =>
        /\ result.none <=> ContextCandidates = {}
        /\ (ContextCandidates # {} /\ args.max_articles >= 1)
              => BlocksAreWindows

\* C14 amended: both halves for max_articles >= 1.
C14_NoneIffNoCandidateWhenAsked ==
    (lastOp = "search_and_get_context" /\ args.max_articles >= 1) =>
        /\ result.none <=> ContextCandidates = {}
        /\ ContextCandidates # {} => BlocksAreWindows

\* C14 witness: a block cut at 3500 characters from a longer body.
C14_Witness ==
    /\ lastOp = "search_and_get_context"
    /\ args.max_articles >= 1
    /\ ~result.none
    /\ \E i \in DOMAIN result.blocks :
          /\ Len(result.blocks[i].content) = 3500
          /\ Len(ChosenContent(i)) > 3500

\* the categories one of whose keywords occurs in the lowercased ticket
MatchingCategories(ticket_text) ==
    {i \in DOMAIN redirect_keywords :
        \E k \in DOMAIN redirect_keywords[i].keywords :
            Contains(Lower(ticket_text), redirect_keywords[i].keywords[k])}

\* C15: with the LLM initialised and a non-empty ticket, a ticket whose
\* lowercased text contains a redirect keyword is answered redirected=true
\* with the category and email of the first matching category in declaration
\* order, without severity classification, knowledge-base search or LLM call.
C15_NonProductTicketIsRedirected ==
    (/\ lastOp = "handle_ticket"
     /\ args.llm
     /\ Strip(args.ticket_text) # <<>>
     /\ MatchingCategories(args.ticket_text) # {})
    => LET first == CHOOSE i \in MatchingCategories(args.ticket_text) :
                       \A j \in MatchingCategories(args.ticket_text) : i <= j
       IN  /\ result.status = 200
           /\ result.redirected
           /\ result.redirect_category = redirect_keywords[first].category
           /\ result.redirect_email
                = redirect_emails[redirect_keywords[first].category]
           /\ \A c \in DOMAIN result.calls :
                result.calls[c] \notin {"analyze_severity_and_type",
                                        "search_knowledge_base", "llm.invoke"}

\* C15 witness: "VPN course" names a keyword of it_helpdesk and, later in the
\* text, one of training; it goes to training, the category declared first.
C15_Witness ==
    /\ lastOp = "handle_ticket"
    /\ args.llm
    /\ args.ticket_text = TicketVpnCourse
    /\ Cardinality(MatchingCategories(args.ticket_text)) = 2
    /\ result.redirected
    /\ result.redirect_category = "training"
    /\ result.redirect_email = "training@dvsum.com"
    /\ result.calls = <<"check_dvsum_relevance">>

\* the place of the article with this URL in the store
StorePlace(url) == CHOOSE k \in DOMAIN articles : articles[k].url = url

\* C16: articles with equal scores appear in the search result in the order
\* they have in the article store.
C16_TiesKeepStoreOrder ==
    lastOp = "search" =>
        \A i, j \in DOMAIN result.results :
            (i < j /\ result.results[i].score = result.results[j].score)
            => StorePlace(result.results[i].url)
                 < StorePlace(result.results[j].url)

\* C16 witness: two results tie at a positive score.
C16_Witness ==
    /\ lastOp = "search"
    /\ \E i, j \in DOMAIN result.results :
          /\ i < j
          /\ result.results[i].score = result.results[j].score
          /\ result.results[i].score > 0

\* C17: for a query with at least one keyword the scorer adds 0.3 when the
\* lowercased query occurs in the title (whether or not it occurs in the
\* body), 0.15 when it occurs in the body but not in the title, and nothing
\* otherwise; it never adds both.
C17_PhraseBonusIsExclusive ==
    (lastOp = "calculate_relevance_score"
        /\ query_keywords(Lower(args.query)) # <<>>)
    => /\ InTitle(args.query, args.article)
            => result.added.phrase = Hundredths(30)
       /\ InBodyOnly(args.query, args.article)
            => result.added.phrase = Hundredths(15)
       /\ (~InTitle(args.query, args.article)
              /\ ~InBody(args.query, args.article))
            => result.added.phrase = 0
       /\ result.added.phrase # Hundredths(45)

\* C17 witness: the query is in the title and in the body, and 0.3 is added.
C17_Witness ==
    /\ lastOp = "calculate_relevance_score"
    /\ query_keywords(Lower(args.query)) # <<>>
    /\ InTitle(args.query, args.article)
    /\ InBody(args.query, args.article)
    /\ result.added.phrase = Hundredths(30)

\* whether word occurs in body somewhere more than 0 and fewer than 100
\* characters after position from
OccursWithin100After(body, word, from) ==
    \E p \in (from + 1)..(from + 99) : OccursAt(body, word, p)

\* the consecutive keyword pairs of the claim: both in the body, the second
\* within 100 characters after the first occurrence of the first
QualifyingPairs(query, article) ==
    LET body == Lower(article.content)
        kws == query_keywords(Lower(query))
    IN  {i \in 1..(Len(kws) - 1) :
            /\ Contains(body, kws[i])
            /\ Contains(body, kws[i + 1])
            /\ OccursWithin100After(body, kws[i + 1],
                                    Find(body, kws[i], 0))}

\* C18: the adjacency bonus is 0.1, added at most once per article, exactly
\* when some consecutive keyword pair has both keywords in the body and the
\* second occurs within 100 characters after the first occurrence of the
\* first; further qualifying pairs add nothing.
C18_AdjacencyBonusOnceIffClosePair ==
    (lastOp = "calculate_relevance_score"
        /\ query_keywords(Lower(args.query)) # <<>>)
    => /\ result.added.proximity \in {0, Hundredths(10)}
       /\ result.added.proximity = Hundredths(10)
            <=> QualifyingPairs(args.query, args.article) # {}

\* the calls that read the store
Readers ==
    {"calculate_relevance_score", "search", "_extract_relevant_snippet",
     "fetch_fresh_article", "search_and_get_context"}

\* C19: once the store is loaded, no calculate_relevance_score, search,
\* _extract_relevant_snippet, fetch_fresh_article or search_and_get_context
\* call changes it: the articles and their fields stay as loaded, and a
\* fetched article is not written back.
C19_ReadersLeaveStoreAlone ==
    [][lastOp' \in Readers => articles' = articles]_vars

\* C19 witness: a context holds a freshly fetched article while the store
\* still holds the scraped one under that URL.
C19_Witness ==
    /\ lastOp = "search_and_get_context"
    /\ \E i \in DOMAIN result.blocks :
          /\ result.blocks[i].fresh
          /\ \E k \in DOMAIN articles :
                /\ articles[k].url = result.blocks[i].url
                /\ "is_fresh" \notin DOMAIN articles[k]
                /\ articles[k].content # args.responses[i].content

\* what one search_and_get_context call returns on the store s alone
ContextOn(s) ==
    LET r == search_and_get_context(s, args.query, args.max_articles, FALSE,
                 [i \in DOMAIN ContextSelected(s, args.query,
                                               args.max_articles) |->
                     FreshResponse])
    IN  <<r.none, r.blocks>>

\* C20: when load_articles runs concurrently with a reader, every result of
\* one search call and every context block of one search_and_get_context
\* call is computed from a single snapshot of the store, the old one or a
\* new one, and no candidate the search selected is lost in its lookup.
C20_ReaderSeesOneSnapshot ==
    lastOp = "returned" =>
        IF args.op = "search"
        THEN \E s \in result.snapshots :
                result.results = search(s, args.query, args.max_results,
                                        args.min_score).results
        ELSE /\ \E s \in result.snapshots :
                    <<result.none, result.blocks>> = ContextOn(s)
             /\ result.lost = 0

\* C21: get_smart_searcher constructs at most one SmartHybridSearch, and every
\* call returns that one instance, also when threads make their first calls
\* at the same time.
C21_OneSearcherInstance ==
    /\ result.constructed <= 1
    /\ \A t, u \in SearcherThreads :
          \A i \in DOMAIN result.returned[t], j \in DOMAIN result.returned[u] :
              result.returned[t][i] = result.returned[u][j]

\* the URLs of the first max_articles candidates of the ranking at the
\* minimum score of search_and_get_context
TopCandidateUrls ==
    LET ranked == SortByScoreDesc(
                      ScoredArticles(articles, args.query, ContextMinScore))
        n == Min2(Max2(args.max_articles, 0), Len(ranked))
    IN  [i \in 1..n |-> ranked[i].article.url]

\* C22: search_and_get_context calls fetch_fresh_article only when fetch_fresh
\* is set, and then exactly once for each of the top max_articles candidates,
\* in rank order: no second call after a failure, none for a candidate ranked
\* beyond max_articles.
C22_FetchOncePerTopCandidate ==
    lastOp = "search_and_get_context" /\ result.exc = "none" =>
        result.fetched = IF args.fetch_fresh THEN TopCandidateUrls ELSE <<>>

\* the same for the calls that ask for at least no articles
FetchOncePerTopCandidateFromZero ==
    lastOp = "search_and_get_context" /\ result.exc = "none"
        /\ args.max_articles >= 0 =>
        result.fetched = IF args.fetch_fresh THEN TopCandidateUrls ELSE <<>>

\* C23: analyze_severity_and_type always returns a severity in {S1, S2, S3}
\* and a ticket type in {BUG, ENHANCEMENT, QUESTION, REQUEST}, whatever the
\* LLM replies; without an LLM, or when it raises, it returns S3 and QUESTION;
\* so the SEVERITY_CONFIGS and TICKET_TYPES lookups made with the returned
\* values do not fail.
C23_ClassificationIsAlwaysValid ==
    lastOp = "analyze_severity_and_type" =>
        /\ result.exc = "none"
        /\ result.severity \in {"S1", "S2", "S3"}
        /\ result.ticket_type \in {"BUG", "ENHANCEMENT", "QUESTION", "REQUEST"}
        /\ ~args.llm \/ args.reply.raises =>
              result.severity = "S3" /\ result.ticket_type = "QUESTION"
        /\ result.lookups = "none"

\* a reply whose TYPE value matches the pattern, is no valid type after
\* upper(), and is replaced by QUESTION
C23_Witness ==
    /\ lastOp = "analyze_severity_and_type"
    /\ args.llm /\ ~args.reply.raises
    /\ ParsedType(Strip(args.reply.content)) = "other"
    /\ ParsedSeverity(Strip(args.reply.content)) = "S2"
    /\ result.ticket_type = "QUESTION"
    /\ result.severity = "S2"

\* C24: in a handle_ticket response that is not a redirect, immediate_solution
\* is present only for the types BUG, QUESTION and REQUEST, fr_summary only
\* for ENHANCEMENT, never both; the knowledge base is searched only for the
\* first three types.
C24_SolutionOrSummaryByType ==
    lastOp = "handle_ticket" /\ result.status = 200 /\ ~result.redirected =>
        /\ result.immediate_solution =>
              result.ticket_type \in {"BUG", "QUESTION", "REQUEST"}
        /\ result.fr_summary => result.ticket_type = "ENHANCEMENT"
        /\ ~(result.immediate_solution /\ result.fr_summary)
        /\ "search_knowledge_base" \in Range(result.calls) =>
              result.ticket_type \in {"BUG", "QUESTION", "REQUEST"}

\* an ENHANCEMENT ticket answered with an FR summary, although the knowledge
\* base and the solution LLM would have given a solution
C24_Witness ==
    /\ lastOp = "handle_ticket"
    /\ result.status = 200 /\ ~result.redirected
    /\ result.ticket_type = "ENHANCEMENT"
    /\ result.fr_summary /\ ~result.immediate_solution
    /\ args.world.kb = "context" /\ args.world.solution = "text"
    /\ "search_knowledge_base" \notin Range(result.calls)

\* whether the keyword search and the vector search are due
KeywordDue == args.kb.available /\ args.kb.searcher
VectorDue == args.kb.vector.kind # "unset"

\* C25: search_knowledge_base never raises; each of the two searches runs
\* when it is due, whether or not the other raised; the keyword part, if any,
\* comes before the vector part; context_parts and search_methods have the
\* same labels in the same order; every source is a URL that follows "URL: "
\* in the keyword context.
C25_KnowledgeBaseMergeIsConcatenation ==
    lastOp = "search_knowledge_base" =>
        /\ result.exc = "none"
        /\ KeywordDue <=> "search_and_get_context" \in Range(result.calls)
        /\ VectorDue <=> "similarity_search" \in Range(result.calls)
        /\ Len(result.context_parts) = Len(result.search_methods)
        /\ \A i \in DOMAIN result.context_parts :
              result.context_parts[i].label = result.search_methods[i]
        /\ \A i, j \in DOMAIN result.search_methods :
              /\ result.search_methods[i] = KeywordLabel
              /\ result.search_methods[j] = VectorLabel
              => i < j
        /\ \A i \in DOMAIN result.sources :
              /\ result.search_methods # <<>>
              /\ result.search_methods[1] = KeywordLabel
              /\ Slice(result.sources[i], 0, Len(HttpScheme)) = HttpScheme
              /\ Contains(result.context_parts[1].context,
                          UrlMarker \o result.sources[i])

\* the keyword search raises, and the vector search still gives its part
C25_Witness ==
    /\ lastOp = "search_knowledge_base"
    /\ KeywordDue /\ args.kb.keyword.kind = "raises"
    /\ args.kb.vector.documents = 2
    /\ result.search_methods = <<VectorLabel>>
    /\ result.calls = <<"search_and_get_context", "similarity_search">>

\* C26: search_zendesk caches under the lowercased, stripped query.  A call
\* whose key is cached returns the stored list and does not touch the
\* browser; a call that ran to completion stores what it returns, an empty
\* list too; a call ended by a failed driver setup or by an exception stores
\* nothing; no call removes or changes an entry.
C26_CacheServesCompletedSearches ==
    [][/\ \A k \in DOMAIN result.search_cache :
             /\ k \in DOMAIN result'.search_cache
             /\ result'.search_cache[k] = result.search_cache[k]
       /\ lastOp' = "search_zendesk" =>
             IF Strip(Lower(args'.query)) \in DOMAIN result.search_cache
             THEN /\ result'.returned
                        = result.search_cache[Strip(Lower(args'.query))]
                  /\ result'.browser = <<>>
                  /\ result'.driver = result.driver
                  /\ result'.search_cache = result.search_cache
             ELSE /\ result'.browser # <<>>
                  /\ result'.outcome \in {"setup failed", "exception"} =>
                        result'.search_cache = result.search_cache
                  /\ result'.outcome = "completed" =>
                        /\ DOMAIN result'.search_cache =
                              DOMAIN result.search_cache
                                  \cup {Strip(Lower(args'.query))}
                        /\ result'.search_cache[Strip(Lower(args'.query))]
                              = result'.returned]_vars

\* " gateway " is answered from the entry stored for another spelling of the
\* key, an empty list, with the browser closed
C26_Witness ==
    /\ lastOp = "search_zendesk"
    /\ args.query = <<" ", "g", "a", "t", "e", "w", "a", "y", " ">>
    /\ result.outcome = "cached"
    /\ result.returned = <<>>
    /\ ~result.driver
    /\ DOMAIN result.search_cache = {<<"g", "a", "t", "e", "w", "a", "y">>}

\* C30: each search_zendesk call returns at most its own max_results entries,
\* and no two entries of the returned list have the same URL.
C30_AtMostMaxResultsDistinctUrls ==
    lastOp = "search_zendesk" =>
        /\ Len(result.returned) <= args.max_results
        /\ \A i, j \in DOMAIN result.returned :
              result.returned[i].url = result.returned[j].url => i = j

\* the same for the calls that are not answered from the cache
FreshSearchHasAtMostMaxResults ==
    lastOp = "search_zendesk" /\ result.outcome # "cached" =>
        /\ Len(result.returned) <= args.max_results
        /\ \A i, j \in DOMAIN result.returned :
              result.returned[i].url = result.returned[j].url => i = j

\* C27: whenever scrape_all has returned or raised, a Chrome browser that was
\* started during the call has been quit.
C27_ScrapeAllClosesTheBrowser ==
    (lastOp \in {"setup_driver", "close_browser"} /\ result.pc = "returned")
        => result.browser # "running"

\* the exit paths through the try statement of lines 207-258 do quit it
ScrapeAllClosesTheBrowserAfterSetup ==
    (lastOp = "close_browser" /\ result.pc = "returned")
        => (result.browser = "quit" /\ result.returned \in {"empty", "articles", "exception"})

\* some keyword that survives the filter of line 48 is a substring of the
\* lowercased title or of the lowercased body
SomeKeywordOccurs(query, article) ==
    \E i \in DOMAIN query_keywords(Lower(query)) :
        \/ Contains(Lower(article.title), query_keywords(Lower(query))[i])
        \/ Contains(Lower(article.content), query_keywords(Lower(query))[i])

\* C28: the score returned by calculate_relevance_score is above 0 exactly
\* when a surviving keyword occurs in the lowercased title or body; without
\* such a keyword neither bonus was added.
C28_PositiveScoreIffKeywordOccurs ==
    lastOp = "calculate_relevance_score"
        => /\ result.exc = "none"
           /\ (result.score > 0) <=> SomeKeywordOccurs(args.query, args.article)
           /\ ~SomeKeywordOccurs(args.query, args.article)
                => (result.added.phrase = 0 /\ result.added.proximity = 0)

\* a body matches one of two keywords, the title none, and no bonus applies
C28_Witness ==
    /\ lastOp = "calculate_relevance_score"
    /\ Len(query_keywords(Lower(args.query))) = 2
    /\ result.added.title = 0
    /\ result.added.phrase = 0
    /\ result.added.proximity = 0
    /\ result.added.content = Hundredths(ContentWeight) \div 2
    /\ result.score > 0

\* keywords survive and none of them occurs: the score is 0
C28_NoMatchScoresZero ==
    /\ lastOp = "calculate_relevance_score"
    /\ query_keywords(Lower(args.query)) # <<>>
    /\ ~SomeKeywordOccurs(args.query, args.article)
    /\ result.score = 0

\* the URLs of the context blocks
BlockUrls == {result.blocks[b].url : b \in DOMAIN result.blocks}

\* C29: for max_articles >= 1, every article among the first max_articles
\* results of search(query) with default arguments has a block in the context
\* of search_and_get_context(query, max_articles), and every block is of an
\* article that scores at least the default minimum 0.1.
C29_ContextUsesDefaultMinScore ==
    (lastOp = "search and search_and_get_context" /\ args.max_articles >= 1)
        => /\ \A i \in DOMAIN SliceTo(result.default, args.max_articles) :
                result.default[i].url \in BlockUrls
           /\ \A k \in DOMAIN articles :
                articles[k].url \in BlockUrls
                    => ScoreOf(args.query, articles[k]).score >= Hundredths(DefaultMinScore)

\* C29 (amended): for every max_articles, each block of the context is of a
\* stored article that scores at least 0.15, the minimum that line 221 gives
\* to search, and 0.15 is the min_score of the one search the call makes.
C29_ContextUsesStricterMinScore ==
    lastOp = "search and search_and_get_context"
        => /\ \A k \in DOMAIN articles :
                articles[k].url \in BlockUrls
                    => ScoreOf(args.query, articles[k]).score >= Hundredths(ContextMinScore)
           /\ \A i \in DOMAIN result.searches :
                result.searches[i].min_score = ContextMinScore

\* search with default arguments returns two articles, the second with a
\* score of 0.125; the context for max_articles = 2 has a block for the
\* first only
C29_Witness ==
    /\ lastOp = "search and search_and_get_context"
    /\ args.max_articles = 2
    /\ Len(result.default) = 2
    /\ result.default[2].score >= Hundredths(DefaultMinScore)
    /\ result.default[2].score < Hundredths(ContextMinScore)
    /\ Len(result.blocks) = 1
    /\ result.blocks[1].url = result.default[1].url

====
